---- MODULE Spec2Model ----
(***************************************************************************)
(* Authorization and session engine of the gym-operations portal.          *)
(*                                                                         *)
(* Server side: the Express middleware chain protect -> guards -> handler  *)
(* (backend/src/middleware/auth.js, routes/*.js, server.js).               *)
(* Client side: the axios response interceptor that refreshes the access   *)
(* token on a 401 and re-sends the call (frontend/src/lib/api.ts), and the *)
(* logout of the auth store (frontend/src/stores/auth.ts).                 *)
(* Auth API: POST /auth/login and /auth/refresh-token (routes/auth.js,     *)
(* controllers/authController.js).  Rate limiting: the limiter layers of   *)
(* the application's middleware stack.                                     *)
(***************************************************************************)
EXTENDS Integers, Sequences, FiniteSets, TLC

VARIABLES
    db,        \* profile store: rows of team_members and members of the subject
    req,       \* the request being served (headers, cookies, params, user, token)
    route,     \* the route the request was dispatched to
    pc,        \* position of the request in the middleware chain
    idx,       \* index of the next guard of the route's chain
    res,       \* response sent (status 0 = none yet)
    trace,     \* calls made while serving the request, in order
    clock,     \* value of new Date() last read by a guard
    cookies,   \* client: js-cookie jar (auth-token, refresh-token)
    calls,     \* client: outbound calls and their interceptor state
    issued,    \* client: number of access tokens minted by the refresh endpoint
    refreshPosts, \* client: POST /auth/refresh-token requests sent upstream
    href,      \* client: window.location.href
    authStore, \* client: persisted auth store (user, token, isAuthenticated)
    logout,    \* client: progress of the store logout() and its upstream call
    areq,      \* auth API: body of the request being served
    apc,       \* auth API: idle, validate, controller, done
    ares,      \* auth API: the response
    provider,  \* auth API: what the auth provider answered for this request
    loginLog,  \* auth API: responses the login controller has given so far
    hits,      \* rate limiting: requests counted by limiter, per origin
    strictHits,\* rate limiting: requests counted by strictLimiter, per origin
    reached,   \* rate limiting: login requests that reached their handler
    lreq,      \* rate limiting: the request passing the application stack
    lidx,      \* rate limiting: the layer of the stack the request is at
    lpc,       \* rate limiting: idle, stack, done
    lres,      \* rate limiting: the response
    entry,     \* error handling: the error handler the application installs
    nodeEnv,   \* error handling: process.env.NODE_ENV
    thrown,    \* error handling: the error passed to next()
    epc,       \* error handling: idle, thrown, done
    eres,      \* error handling: the response body and status
    impl,      \* member management: which implementation serves the routes
    members,   \* member management: the members table, by member id
    mreq,      \* member management: the authenticated request being served
    mpc,       \* member management: idle, handler, done
    mres,      \* member management: the response
    history,   \* status updates: what updateUserStatus last did, and when
    pcheck,    \* permission checks: an identity, a capability, both answers
    isLoading, \* session store: the isLoading flag (not persisted)
    storage,   \* session store: the 'auth-storage' entry of localStorage
    hydrated,  \* session store: the persisted entry has been read
    hook,      \* useAuth: which version of the hook the pages use
    hasInitialized, \* useAuth: its hasInitialized state
    effectDue, \* useAuth: a dependency changed, the effect will run
    ops        \* session store: the API operations it started, in order

serverVars == <<db, req, route, pc, idx, res, trace, clock>>
clientVars == <<cookies, calls, issued, refreshPosts, href, authStore, logout>>
authVars == <<areq, apc, ares, provider, loginLog>>
limiterVars == <<hits, strictHits, reached, lreq, lidx, lpc, lres>>
errorVars == <<entry, nodeEnv, thrown, epc, eres>>
memberVars == <<impl, members, mreq, mpc, mres>>
statusVars == <<history>>
permVars == <<pcheck>>
storeVars == <<isLoading, storage, hydrated, hook, hasInitialized, effectDue, ops>>
lateVars == <<statusVars, permVars, storeVars>>
extraVars == <<errorVars, memberVars, lateVars>>
otherVars == <<authVars, limiterVars, extraVars>>
vars == <<db, req, route, pc, idx, res, trace, clock,
          cookies, calls, issued, refreshPosts, href, authStore, logout,
          areq, apc, ares, provider, loginLog,
          hits, strictHits, reached, lreq, lidx, lpc, lres,
          entry, nodeEnv, thrown, epc, eres,
          impl, members, mreq, mpc, mres,
          history, pcheck,
          isLoading, storage, hydrated, hook, hasInitialized, effectDue, ops>>

-----------------------------------------------------------------------------
(* Bounds                                                                  *)

TicksPerDay == 2     \* instants per calendar day
MaxPast == 1         \* instants the clock can show after the end date's midnight
MaxCalls == 2        \* concurrent outbound calls of the client
MaxPosts == 4        \* refresh requests the refresh endpoint serves
MaxRequests == 11    \* requests arriving within one rate-limit window

-----------------------------------------------------------------------------
(* Values                                                                  *)

Null == ""           \* JS null / undefined / '' of a string-valued field
Falsy(s) == s = Null

Locations == {"L1", "L2"}
Statuses == {"active", "inactive", "suspended", "expired", "cancelled", "pending"}
Subject == "u1"

\* Header strings are sequences of characters.
BearerPrefix == <<"B", "e", "a", "r", "e", "r", " ">>
BasicPrefix == <<"B", "a", "s", "i", "c", " ">>

\* Authorization header values a caller can send (empty = header absent):
\* "Bearer a", "Bearer  a" (two spaces) and "Basic a".
AuthHeaders ==
    { <<>>,
      BearerPrefix \o <<"a">>,
      BearerPrefix \o <<" ", "a">>,
      BasicPrefix \o <<"a">> }

\* permissions JSONB maps: capability -> JSON value
PermMaps ==
    { [c \in {} |-> "true"],
      [c \in {"manage_members"} |-> "true"],
      [c \in {"manage_members", "view_reports"} |->
          IF c = "manage_members" THEN "1" ELSE "false"] }

NoDate == <<>>
EndDates == {NoDate, <<1>>}
Times == 0 .. (TicksPerDay + MaxPast)

TeamRows ==
    [role : {"admin", "staff"}, gym_location_id : Locations,
     is_active : {TRUE}, permissions : PermMaps]
    \cup
    [role : {"admin", "staff"}, gym_location_id : {"L1"},
     is_active : {FALSE}, permissions : {[c \in {"manage_members"} |-> "true"]}]

MemberRows ==
    [gym_location_id : Locations, membership_status : {"active", "pending"},
     membership_end_date : EndDates]
    \cup
    [gym_location_id : {"L1"},
     membership_status : Statuses \ {"active", "pending"},
     membership_end_date : {NoDate}]

\* Stores the subject can have: a row in one table, in none, or in both.
BothTeamRows == {r \in TeamRows : r.gym_location_id = "L1" /\ r.role = "staff"
                                  /\ "manage_members" \in DOMAIN r.permissions}
BothMemberRows == {r \in MemberRows : r.membership_end_date = NoDate
                                      /\ r.membership_status \in {"active", "suspended"}
                                      /\ (r.membership_status = "active"
                                            => r.gym_location_id = "L2")}
Stores ==
    {[team_members |-> {}, members |-> {}]}
    \cup {[team_members |-> {t}, members |-> {}] : t \in TeamRows}
    \cup {[team_members |-> {}, members |-> {m}] : m \in MemberRows}
    \cup {[team_members |-> {t}, members |-> {m}] : t \in BothTeamRows, m \in BothMemberRows}

-----------------------------------------------------------------------------
(* Errors and responses                                                    *)

AuthenticationError(msg) == [statusCode |-> 401, message |-> msg]
AuthorizationError(msg) == [statusCode |-> 403, message |-> msg]
ValidationError(msg) == [statusCode |-> 400, message |-> msg]
NoResponse == [statusCode |-> 0, message |-> ""]
Success == [statusCode |-> 200, message |-> "success"]

-----------------------------------------------------------------------------
(* Token extraction                                                        *)

StartsWith(s, p) == Len(s) >= Len(p) /\ SubSeq(s, 1, Len(p)) = p

\* String.prototype.split(' '): the pieces between single spaces.
RECURSIVE SplitFrom(_, _, _)
SplitFrom(s, i, cur) ==
    IF i > Len(s) THEN <<cur>>
    ELSE IF s[i] = " " THEN <<cur>> \o SplitFrom(s, i + 1, "")
    ELSE SplitFrom(s, i + 1, cur \o s[i])
Split(s) == SplitFrom(s, 1, "")

\* What the application's middleware stack leaves in req.cookies: no cookie
\* parser is installed, so the Cookie header is never parsed.
ParsedCookies(raw) == [defined |-> FALSE, jwt |-> Null]

\* Variant: the scheme of the Authorization header is not checked.
extractTokenAnyScheme(r) ==
    IF r.authorization # <<>> /\ Len(Split(r.authorization)) >= 2
    THEN Split(r.authorization)[2]
    ELSE IF r.cookies.defined /\ ~Falsy(r.cookies.jwt)
    THEN r.cookies.jwt
    ELSE IF ~Falsy(r.xAccessToken)
    THEN r.xAccessToken
    ELSE Null

extractToken(r) ==
    IF r.authorization # <<>> /\ StartsWith(r.authorization, BearerPrefix)
    THEN Split(r.authorization)[2]
    ELSE IF r.cookies.defined /\ ~Falsy(r.cookies.jwt)
    THEN r.cookies.jwt
    ELSE IF ~Falsy(r.xAccessToken)
    THEN r.xAccessToken
    ELSE Null

-----------------------------------------------------------------------------
(* Identity resolution                                                     *)

\* PostgREST .single(): the row when exactly one row matches, else an error.
Single(rows) == IF Cardinality(rows) = 1 THEN rows ELSE {}

TeamLookup(store) == Single({r \in store.team_members : r.is_active = TRUE})
MemberLookup(store) == Single(store.members)

StaffIdentity(r, userId) ==
    [userId |-> userId, role |-> r.role, type |-> "team_member",
     gymLocationId |-> r.gym_location_id, permissions |-> r.permissions,
     isActive |-> r.is_active]

\* Variant: a suspended membership still counts as an active account.
MemberIdentitySuspendedActive(r, userId) ==
    [userId |-> userId, role |-> "member", type |-> "member",
     gymLocationId |-> r.gym_location_id,
     membershipStatus |-> r.membership_status,
     membershipEndDate |-> r.membership_end_date,
     isActive |-> r.membership_status \in {"active", "pending", "suspended"}]

MemberIdentity(r, userId) ==
    [userId |-> userId, role |-> "member", type |-> "member",
     gymLocationId |-> r.gym_location_id,
     membershipStatus |-> r.membership_status,
     membershipEndDate |-> r.membership_end_date,
     isActive |-> r.membership_status \in {"active", "pending"}]

NoUser == [type |-> "none"]
ProfileNotFound == [type |-> "error"]

\* Tables queried by getUserProfile, in order.
ProfileQueries(store) ==
    IF TeamLookup(store) # {} THEN <<"team_members">>
    ELSE <<"team_members", "members">>

\* Variant: the member table is consulted first.
getUserProfileMemberFirst(store, userId) ==
    IF MemberLookup(store) # {}
    THEN MemberIdentity(CHOOSE r \in MemberLookup(store) : TRUE, userId)
    ELSE IF TeamLookup(store) # {}
    THEN StaffIdentity(CHOOSE r \in TeamLookup(store) : TRUE, userId)
    ELSE ProfileNotFound

getUserProfile(store, userId) ==
    IF TeamLookup(store) # {}
    THEN StaffIdentity(CHOOSE r \in TeamLookup(store) : TRUE, userId)
    ELSE IF MemberLookup(store) # {}
    THEN MemberIdentity(CHOOSE r \in MemberLookup(store) : TRUE, userId)
    ELSE ProfileNotFound

-----------------------------------------------------------------------------
(* Routes: the guards chained after protect                                *)

restrictTo(roles) == [kind |-> "restrictTo", args |-> roles]
requirePermission(permissions) == [kind |-> "requirePermission", args |-> permissions]
restrictToGymLocation == [kind |-> "restrictToGymLocation", args |-> {}]
requireActiveMembership == [kind |-> "requireActiveMembership", args |-> {}]
validateRequest == [kind |-> "validateRequest", args |-> {}]

\* Chains mounted by the route files.
MountedRoutes ==
    [r \in {"GET /members", "POST /checkins", "PUT /settings", "GET /settings"} |->
        CASE r = "GET /members" ->
                <<restrictTo({"admin", "staff"}), validateRequest, restrictToGymLocation>>
          [] r = "POST /checkins" -> <<requireActiveMembership>>
          [] r = "PUT /settings" -> <<restrictTo({"admin"})>>
          [] r = "GET /settings" -> <<>>]

\* Further compositions of the exported guards.
ComposedRoutes ==
    [r \in {"scoped", "capability", "capability-scoped"} |->
        CASE r = "scoped" ->
                <<restrictTo({"staff", "member"}), restrictToGymLocation,
                  requireActiveMembership>>
          [] r = "capability" ->
                <<requirePermission({"manage_members", "view_reports"})>>
          [] r = "capability-scoped" ->
                <<requirePermission({"view_reports"}), restrictToGymLocation>>]

Routes == MountedRoutes @@ ComposedRoutes
Chain == Routes[route]

-----------------------------------------------------------------------------
(* Guard decisions: the error a guard throws, or NoResponse when it calls  *)
(* next().                                                                 *)

NotAuthenticated == AuthenticationError("Authentication required")

RestrictToDecision(user, roles) ==
    IF user = NoUser THEN NotAuthenticated
    ELSE IF user.role \notin roles
    THEN AuthorizationError("Access denied. Required role")
    ELSE NoResponse

UserPermissions(user) ==
    IF "permissions" \in DOMAIN user THEN user.permissions ELSE [c \in {} |-> "true"]

\* Variant: any truthy JSON value counts as a grant.
HasPermissionTruthy(user, permissions) ==
    \E p \in permissions :
        p \in DOMAIN UserPermissions(user) /\ UserPermissions(user)[p] # "false"

HasPermission(user, permissions) ==
    \E p \in permissions :
        p \in DOMAIN UserPermissions(user) /\ UserPermissions(user)[p] = "true"

RequirePermissionDecision(user, permissions) ==
    IF user = NoUser THEN NotAuthenticated
    ELSE IF user.role = "admin" THEN NoResponse
    ELSE IF ~HasPermission(user, permissions)
    THEN AuthorizationError("Insufficient permissions")
    ELSE NoResponse

Or(a, b) == IF ~Falsy(a) THEN a ELSE b
RequestedLocationId(r) == Or(Or(r.params, r.query), r.body)

\* Variant: only staff identities are scoped to their location.
RestrictToGymLocationStaffOnly(user, r) ==
    IF user = NoUser THEN NotAuthenticated
    ELSE IF user.role = "admin" THEN NoResponse
    ELSE IF user.role = "staff" /\ ~Falsy(RequestedLocationId(r))
            /\ RequestedLocationId(r) # user.gymLocationId
    THEN AuthorizationError("Access denied to this gym location")
    ELSE NoResponse

RestrictToGymLocationDecision(user, r) ==
    IF user = NoUser THEN NotAuthenticated
    ELSE IF user.role = "admin" THEN NoResponse
    ELSE IF user.role = "staff" /\ ~Falsy(RequestedLocationId(r))
            /\ RequestedLocationId(r) # user.gymLocationId
    THEN AuthorizationError("Access denied to this gym location")
    ELSE IF user.role = "member" /\ ~Falsy(RequestedLocationId(r))
            /\ RequestedLocationId(r) # user.gymLocationId
    THEN AuthorizationError("Access denied to this gym location")
    ELSE NoResponse

\* new Date(dateString) of a DATE column: midnight at the start of that day.
DateOf(d) == d[1] * TicksPerDay

\* Variant: a membership ending exactly now is already expired.
RequireActiveMembershipInclusive(user, now) ==
    IF user = NoUser THEN NotAuthenticated
    ELSE IF user.role = "member" /\ user.membershipStatus # "active"
    THEN AuthorizationError("Active membership required")
    ELSE IF user.role = "member" /\ user.membershipEndDate # NoDate
            /\ DateOf(user.membershipEndDate) <= now
    THEN AuthorizationError("Your membership has expired")
    ELSE NoResponse

RequireActiveMembershipDecision(user, now) ==
    IF user = NoUser THEN NotAuthenticated
    ELSE IF user.role = "member" /\ user.membershipStatus # "active"
    THEN AuthorizationError("Active membership required")
    ELSE IF user.role = "member" /\ user.membershipEndDate # NoDate
            /\ DateOf(user.membershipEndDate) < now
    THEN AuthorizationError("Your membership has expired")
    ELSE NoResponse

\* query('gymLocationId').optional().isUUID()
IsUUID(s) == s \in Locations
ValidateRequestDecision(r) ==
    IF ~Falsy(r.query) /\ ~IsUUID(r.query)
    THEN ValidationError("Validation failed")
    ELSE NoResponse

-----------------------------------------------------------------------------
(* Server actions                                                          *)

RawRequests ==
    [authorization : AuthHeaders, cookieJwt : {Null, "b"}, xAccessToken : {Null, "c"},
     params : {Null} \cup Locations,
     query : {Null, "not-a-uuid"} \cup Locations,
     body : {Null} \cup Locations]

NoRequest ==
    [authorization |-> <<>>, cookieJwt |-> Null,
     cookies |-> [defined |-> FALSE, jwt |-> Null],
     xAccessToken |-> Null, params |-> Null, query |-> Null, body |-> Null,
     user |-> NoUser, token |-> Null]

\* A request arrives and is dispatched to a route.
Receive ==
    /\ pc = "idle"
    /\ \E raw \in RawRequests, r \in DOMAIN Routes :
          /\ req' = [authorization |-> raw.authorization,
                     cookieJwt |-> raw.cookieJwt,
                     cookies |-> ParsedCookies(raw),
                     xAccessToken |-> raw.xAccessToken,
                     params |-> raw.params, query |-> raw.query, body |-> raw.body,
                     user |-> NoUser, token |-> Null]
          /\ route' = r
    /\ pc' = "protect"
    /\ idx' = 1
    /\ res' = NoResponse
    /\ trace' = <<>>
    /\ clock' = 0
    /\ UNCHANGED db
    /\ UNCHANGED <<clientVars, otherVars>>

\* The error handler of server.js answers with the error a middleware threw.
Fail(err, tr) ==
    /\ res' = err
    /\ pc' = "done"
    /\ trace' = tr

\* Variant: the identity resolved for an earlier request is kept and reused.
protectCached ==
    /\ pc = "protect"
    /\ LET token == extractToken(req) IN
       IF Falsy(token)
       THEN /\ Fail(AuthenticationError("Access denied. No token provided."), trace)
            /\ UNCHANGED req
       ELSE \E verified \in BOOLEAN :
            LET t1 == Append(trace, "verifyToken") IN
            IF ~verified
            THEN /\ Fail(AuthenticationError("Invalid or expired token"), t1)
                 /\ UNCHANGED req
            ELSE LET userProfile == IF history.before # NoUser THEN history.before
                                    ELSE getUserProfile(db, Subject)
                     t2 == t1 \o ProfileQueries(db) IN
                 IF userProfile = ProfileNotFound
                 THEN /\ Fail(AuthenticationError("User profile not found"), t2)
                      /\ UNCHANGED req
                 ELSE IF ~userProfile.isActive
                 THEN /\ Fail(AuthenticationError("Your account has been deactivated."), t2)
                      /\ UNCHANGED req
                 ELSE /\ req' = [req EXCEPT !.user = userProfile, !.token = token]
                      /\ trace' = t2
                      /\ pc' = "guards"
                      /\ UNCHANGED res
    /\ UNCHANGED <<db, route, idx, clock>>
    /\ UNCHANGED <<clientVars, otherVars>>

protect ==
    /\ pc = "protect"
    /\ LET token == extractToken(req) IN
       IF Falsy(token)
       THEN /\ Fail(AuthenticationError("Access denied. No token provided."), trace)
            /\ UNCHANGED req
       ELSE \E verified \in BOOLEAN :
            LET t1 == Append(trace, "verifyToken") IN
            IF ~verified
            THEN /\ Fail(AuthenticationError("Invalid or expired token"), t1)
                 /\ UNCHANGED req
            ELSE LET userProfile == getUserProfile(db, Subject)
                     t2 == t1 \o ProfileQueries(db) IN
                 IF userProfile = ProfileNotFound
                 THEN /\ Fail(AuthenticationError("User profile not found"), t2)
                      /\ UNCHANGED req
                 ELSE IF ~userProfile.isActive
                 THEN /\ Fail(AuthenticationError("Your account has been deactivated."), t2)
                      /\ UNCHANGED req
                 ELSE /\ req' = [req EXCEPT !.user = userProfile, !.token = token]
                      /\ trace' = t2
                      /\ pc' = "guards"
                      /\ UNCHANGED res
    /\ UNCHANGED <<db, route, idx, clock>>
    /\ UNCHANGED <<clientVars, otherVars>>

\* Variant: a denying guard records its error but still calls next().
DecideAndContinue(decision, now) ==
    /\ idx' = idx + 1
    /\ pc' = pc
    /\ res' = IF decision = NoResponse \/ res # NoResponse THEN res ELSE decision
    /\ trace' = Append(trace, Chain[idx].kind)
    /\ clock' = now
    /\ UNCHANGED <<db, req, route>>
    /\ UNCHANGED <<clientVars, otherVars>>

\* A guard either throws (the request ends with that error) or calls next().
Decide(decision, now) ==
    /\ IF decision = NoResponse
       THEN /\ idx' = idx + 1
            /\ UNCHANGED <<res, pc>>
       ELSE /\ res' = decision
            /\ pc' = "done"
            /\ UNCHANGED idx
    /\ trace' = Append(trace, Chain[idx].kind)
    /\ clock' = now
    /\ UNCHANGED <<db, req, route>>
    /\ UNCHANGED <<clientVars, otherVars>>

AtGuard(kind) == pc = "guards" /\ idx <= Len(Chain) /\ Chain[idx].kind = kind

RestrictTo ==
    /\ AtGuard("restrictTo")
    /\ Decide(RestrictToDecision(req.user, Chain[idx].args), clock)

RequirePermission ==
    /\ AtGuard("requirePermission")
    /\ Decide(RequirePermissionDecision(req.user, Chain[idx].args), clock)

RestrictToGymLocation ==
    /\ AtGuard("restrictToGymLocation")
    /\ Decide(RestrictToGymLocationDecision(req.user, req), clock)

RequireActiveMembership ==
    /\ AtGuard("requireActiveMembership")
    /\ \E now \in Times :
          Decide(RequireActiveMembershipDecision(req.user, now), now)

ValidateRequest ==
    /\ AtGuard("validateRequest")
    /\ Decide(ValidateRequestDecision(req), clock)

Handler ==
    /\ pc = "guards"
    /\ idx > Len(Chain)
    /\ res' = Success
    /\ pc' = "done"
    /\ trace' = Append(trace, "handler")
    /\ UNCHANGED <<db, req, route, idx, clock>>
    /\ UNCHANGED <<clientVars, otherVars>>

\* The response has been written; the request's state is dropped.
Finish ==
    /\ pc = "done"
    /\ pc' = "idle"
    /\ req' = NoRequest
    /\ route' = "GET /settings"
    /\ idx' = 1
    /\ res' = NoResponse
    /\ trace' = <<>>
    /\ clock' = 0
    /\ UNCHANGED db
    /\ UNCHANGED <<clientVars, otherVars>>

-----------------------------------------------------------------------------
(* Rate limiting values (application file: limiter, strictLimiter)         *)

IPs == {"ip1", "ip2"}
CallerRoles == {"admin", "staff", "member", "anonymous"}

\* Request paths, as sequences of segments.
LoginPath == <<"api", "v1", "auth", "login">>
MembersPath == <<"api", "v1", "members">>
UnversionedLoginPath == <<"api", "auth", "login">>
Paths == {LoginPath, MembersPath, UnversionedLoginPath}

NoLimitRequest == [ip |-> "ip1", path |-> <<>>, role |-> "anonymous", limit |-> 0]

LimiterIdle ==
    /\ hits = [i \in IPs |-> 0]
    /\ strictHits = [i \in IPs |-> 0]
    /\ reached = [i \in IPs |-> 0]
    /\ lreq = NoLimitRequest
    /\ lidx = 1
    /\ lpc = "idle"
    /\ lres = NoResponse

-----------------------------------------------------------------------------
(* Member management values (routes/members.js, memberController.js)       *)

MemberIds == {"m1", "m2"}
UnknownMemberId == "m9"
\* Where each member is registered; the routes never change it.
HomeLocation == [m \in MemberIds |-> IF m = "m1" THEN "L1" ELSE "L2"]
MemberTables ==
    {t \in [MemberIds -> [gym_location_id : Locations,
                          membership_status : {"active", "suspended"},
                          first_name : {"A"}]] :
        \A m \in MemberIds : t[m].gym_location_id = HomeLocation[m]}

\* The three implementations of the member routes in the repository.
Implementations == {"routes/members.js", "members routes (full)", "memberController.js"}

\* The identities restrictTo('admin', 'staff') lets through.
Operators ==
    [role : {"staff"}, gymLocationId : Locations]
    \cup [role : {"admin"}, gymLocationId : {"L1"}]

NoMemberRequest ==
    [op |-> "none", user |-> [role |-> "admin", gymLocationId |-> "L1"],
     id |-> Null, gymLocationId |-> Null]
NoMemberResponse == [statusCode |-> 0, message |-> Null, items |-> {}]

MembersIdle ==
    /\ impl = "routes/members.js"
    /\ members = [m \in MemberIds |->
                    [gym_location_id |-> HomeLocation[m],
                     membership_status |-> "active", first_name |-> "A"]]
    /\ mreq = NoMemberRequest
    /\ mpc = "idle"
    /\ mres = NoMemberResponse

-----------------------------------------------------------------------------
(* Status updates and permission checks: values                            *)

\* No status update has been made yet.
NoHistory ==
    [before |-> NoUser, updated |-> FALSE, isActive |-> TRUE, after |-> FALSE]

Capabilities == {"manage_members", "view_reports", "manage_billing"}
NoCheck ==
    [user |-> NoUser, permission |-> "manage_members",
     asked |-> {"client", "server"},
     client |-> FALSE, server |-> AuthenticationError("Authentication required")]

StatusIdle == history = NoHistory
PermissionsIdle == pcheck = NoCheck
StoreIdle ==
    /\ isLoading = FALSE
    /\ storage = [user |-> Null, token |-> Null, isAuthenticated |-> FALSE]
    /\ hydrated = FALSE
    /\ hook = "hooks/useAuth.ts"
    /\ hasInitialized = FALSE
    /\ effectDue = FALSE
    /\ ops = <<>>
LateIdle == StatusIdle /\ PermissionsIdle /\ StoreIdle

-----------------------------------------------------------------------------
(* Error handling values (middleware/errorHandler.js, server.js)           *)

\* An error object: name is its own enumerable name property (none for the
\* built-in and AppError classes, whose name lives on the prototype),
\* statusCode 0 and code <<>> stand for undefined.
ErrorObject(kind, name, msg, stack, statusCode, isOperational, code) ==
    [kind |-> kind, name |-> name, message |-> msg, stack |-> stack,
     statusCode |-> statusCode, isOperational |-> isOperational, code |-> code]

NoError == ErrorObject("none", Null, Null, Null, 0, FALSE, <<>>)
NoErrorResponse == [statusCode |-> 0, message |-> Null, stack |-> Null]

ErrorIdle ==
    /\ entry = "server.js"
    /\ nodeEnv = "production"
    /\ thrown = NoError
    /\ epc = "idle"
    /\ eres = NoErrorResponse

ExtraIdle == ErrorIdle /\ MembersIdle /\ LateIdle

-----------------------------------------------------------------------------
(* Auth API values (routes/auth.js, controllers/authController.js)         *)

\* Emails are sequences of characters: the registered one, an unregistered
\* one and a malformed one.
KnownEmail == <<"a", "@", "x">>
Emails == {KnownEmail, <<"b", "@", "x">>, <<"a">>}
Password == "p"
Passwords == {Null, "p", "q"}
\* Refresh tokens: none, one the provider knows, one it does not accept.
RefreshTokens == {Null, "r0", "rx"}

NoSession == [accessToken |-> Null, refreshToken |-> Null]
NoAuthRequest ==
    [kind |-> "none", email |-> <<>>, password |-> Null, refreshToken |-> Null]
NoAuthResponse == [statusCode |-> 0, message |-> "", session |-> NoSession]
NoReply == [called |-> FALSE, thrown |-> FALSE, error |-> Null, session |-> NoSession]

AuthIdle ==
    /\ areq = NoAuthRequest
    /\ apc = "idle"
    /\ ares = NoAuthResponse
    /\ provider = NoReply
    /\ loginLog = {}

\* The auth store: initial (and logged-out) state, and the state after a login.
LoggedOut == [user |-> Null, token |-> Null, isAuthenticated |-> FALSE]
LoggedIn == [user |-> Subject, token |-> "t0", isAuthenticated |-> TRUE]
NoLogout == [pc |-> "idle", call |-> 0]
NoCookies == [token |-> Null, refresh |-> Null]

ClientIdle ==
    /\ authStore = LoggedOut
    /\ logout = NoLogout
    /\ cookies = [token |-> Null, refresh |-> Null]
    /\ calls = <<>>
    /\ issued = 0
    /\ refreshPosts = 0
    /\ href = "/"

Init ==
    /\ db \in Stores
    /\ req = NoRequest
    /\ route = "GET /settings"
    /\ pc = "idle"
    /\ idx = 1
    /\ res = NoResponse
    /\ trace = <<>>
    /\ clock = 0
    /\ ClientIdle
    /\ AuthIdle
    /\ LimiterIdle
    /\ ExtraIdle

Next ==
    \/ Receive
    \/ protect
    \/ RestrictTo
    \/ RequirePermission
    \/ RestrictToGymLocation
    \/ RequireActiveMembership
    \/ ValidateRequest
    \/ Handler
    \/ Finish

Spec == Init /\ [][Next]_vars

-----------------------------------------------------------------------------
(* Optional authentication (optionalAuth)                                  *)

\* A request arrives at an endpoint that uses optionalAuth.
ReceiveOptional ==
    /\ pc = "idle"
    /\ \E raw \in RawRequests :
          req' = [authorization |-> raw.authorization,
                  cookieJwt |-> raw.cookieJwt,
                  cookies |-> ParsedCookies(raw),
                  xAccessToken |-> raw.xAccessToken,
                  params |-> raw.params, query |-> raw.query, body |-> raw.body,
                  user |-> NoUser, token |-> Null]
    /\ pc' = "optionalAuth"
    /\ res' = NoResponse
    /\ trace' = <<>>
    /\ UNCHANGED <<db, route, idx, clock>>
    /\ UNCHANGED <<clientVars, otherVars>>

\* Variant: any resolved profile is attached.
OptionalAttachAnyProfile(userProfile) == userProfile # ProfileNotFound

\* if (userProfile.isActive), reached only when getUserProfile did not throw.
OptionalAttach(userProfile) ==
    userProfile # ProfileNotFound /\ userProfile.isActive

\* optionalAuth: the steps of protect, with every error caught and logged at
\* debug level; next() is called in all cases.
optionalAuth ==
    /\ pc = "optionalAuth"
    /\ LET token == extractToken(req) IN
       IF Falsy(token)
       THEN UNCHANGED <<req, trace>>
       ELSE \E verified \in BOOLEAN :
            LET t1 == Append(trace, "verifyToken") IN
            IF ~verified
            THEN /\ trace' = t1 \o <<"Invalid or expired token", "logger.debug">>
                 /\ UNCHANGED req
            ELSE LET userProfile == getUserProfile(db, Subject)
                     t2 == t1 \o ProfileQueries(db) IN
                 IF userProfile = ProfileNotFound
                 THEN /\ trace' = t2 \o <<"User profile not found", "logger.debug">>
                      /\ UNCHANGED req
                 ELSE IF OptionalAttach(userProfile)
                 THEN /\ req' = [req EXCEPT !.user = userProfile, !.token = token]
                      /\ trace' = t2
                 ELSE /\ trace' = t2
                      /\ UNCHANGED req
    /\ pc' = "next"
    /\ UNCHANGED <<db, route, idx, res, clock>>
    /\ UNCHANGED <<clientVars, otherVars>>

\* The endpoint behind optionalAuth answers.
OptionalHandler ==
    /\ pc = "next"
    /\ res' = Success
    /\ pc' = "done"
    /\ trace' = Append(trace, "handler")
    /\ UNCHANGED <<db, req, route, idx, clock>>
    /\ UNCHANGED <<clientVars, otherVars>>

NextOptional ==
    \/ ReceiveOptional
    \/ optionalAuth
    \/ OptionalHandler
    \/ Finish

SpecOptional == Init /\ [][NextOptional]_vars

-----------------------------------------------------------------------------
(* Client request pipeline (axios instance apiClient and its interceptors) *)

CallIds == 1 .. MaxCalls

NewCall ==
    [pc |-> "new",          \* new, sent, refreshing, resolved, rejected
     retry |-> FALSE,       \* config._retry
     authorization |-> Null,\* config.headers.Authorization (the bearer token)
     status |-> 0,          \* status of the last response to this call
     sends |-> 0,           \* times the call was put on the wire
     refreshes |-> 0,       \* refresh requests made on behalf of this call
     error |-> ""]          \* what the call was rejected with

\* Variant: the interceptor takes the token from the auth store.
RequestInterceptorFromStore(config, jar) ==
    IF ~Falsy(authStore.token)
    THEN [config EXCEPT !.authorization = authStore.token]
    ELSE config

\* Request interceptor: attach the access token of the cookie jar, if any.
RequestInterceptor(config, jar) ==
    IF ~Falsy(jar.token)
    THEN [config EXCEPT !.authorization = jar.token]
    ELSE config

\* apiClient(config): run the request interceptor and put the call on the wire.
Dispatch(config, jar) ==
    [RequestInterceptor(config, jar) EXCEPT
        !.pc = "sent", !.status = 0, !.sends = config.sends + 1]

\* The application issues a call.
Request(c) ==
    /\ calls[c].pc = "new"
    /\ calls' = [calls EXCEPT ![c] = Dispatch(calls[c], cookies)]
    /\ UNCHANGED <<cookies, issued, refreshPosts, href>>
    /\ UNCHANGED <<authStore, logout>>
    /\ UNCHANGED <<serverVars, otherVars>>

\* Response interceptor, success branch.
ResponseOk(c) ==
    /\ calls[c].pc = "sent"
    /\ calls' = [calls EXCEPT ![c].pc = "resolved", ![c].status = 200]
    /\ UNCHANGED <<cookies, issued, refreshPosts, href>>
    /\ UNCHANGED <<authStore, logout>>
    /\ UNCHANGED <<serverVars, otherVars>>

\* Variant: the _retry mark of the call is ignored.
ShouldRefreshAlways(status, retry) == status = 401

\* error.response?.status === 401 && !originalRequest._retry
ShouldRefresh(status, retry) == status = 401 /\ ~retry

AccessToken(n) == "t" \o ToString(n)
RefreshToken(n) == "r" \o ToString(n)

\* data.session of the n-th successful refresh response: the provider
\* issues a new access token and a new refresh token.
RefreshedSession(n) ==
    [accessToken |-> AccessToken(n), refreshToken |-> RefreshToken(n)]

\* Variant: an access token cookie also counts as a refresh token.
HasRefreshTokenOrToken(jar) == ~Falsy(jar.refresh) \/ ~Falsy(jar.token)

\* const refreshToken = Cookies.get(REFRESH_TOKEN_KEY); if (refreshToken)
HasRefreshToken(jar) == ~Falsy(jar.refresh)

\* Response interceptor, error branch, up to its first await (the refresh
\* POST) or, when no refresh is attempted, to the rejection of the call.
ResponseError(c, status) ==
    /\ calls[c].pc = "sent"
    /\ IF ShouldRefresh(status, calls[c].retry)
       THEN IF HasRefreshToken(cookies)
            THEN /\ refreshPosts < MaxPosts
                 /\ calls' = [calls EXCEPT ![c].retry = TRUE,
                                           ![c].status = status,
                                           ![c].refreshes = @ + 1,
                                           ![c].pc = "refreshing"]
                 /\ refreshPosts' = refreshPosts + 1
            ELSE /\ calls' = [calls EXCEPT ![c].retry = TRUE,
                                           ![c].status = status,
                                           ![c].pc = "rejected",
                                           ![c].error = "response"]
                 /\ UNCHANGED refreshPosts
       ELSE /\ calls' = [calls EXCEPT ![c].status = status,
                                      ![c].pc = "rejected",
                                      ![c].error = "response"]
            /\ UNCHANGED refreshPosts
    /\ UNCHANGED <<cookies, issued, href>>
    /\ UNCHANGED <<authStore, logout>>
    /\ UNCHANGED <<serverVars, otherVars>>


\* The refresh POST resolved: store the new access token and re-send the call.
RefreshResolved(c) ==
    /\ calls[c].pc = "refreshing"
    /\ issued < MaxPosts
    /\ LET accessToken == RefreshedSession(issued + 1).accessToken
           jar == [cookies EXCEPT !.token = accessToken] IN
       /\ cookies' = jar
       /\ calls' = [calls EXCEPT ![c] =
              Dispatch([calls[c] EXCEPT !.authorization = accessToken], jar)]
    /\ issued' = issued + 1
    /\ UNCHANGED <<refreshPosts, href>>
    /\ UNCHANGED <<authStore, logout>>
    /\ UNCHANGED <<serverVars, otherVars>>

\* The refresh POST failed: drop both tokens, go to the login page, reject.
RefreshRejected(c) ==
    /\ calls[c].pc = "refreshing"
    /\ cookies' = [token |-> Null, refresh |-> Null]
    /\ href' = "/auth/login"
    /\ calls' = [calls EXCEPT ![c].pc = "rejected", ![c].error = "refresh"]
    /\ UNCHANGED <<issued, refreshPosts>>
    /\ UNCHANGED <<authStore, logout>>
    /\ UNCHANGED <<serverVars, otherVars>>

\* useAuthStore.logout(): fire api.logout() (POST /auth/logout through
\* apiClient) without awaiting it, reset the store, go to the login page.
Logout(c) ==
    /\ logout.pc = "idle"
    /\ calls[c].pc = "new"
    /\ calls' = [calls EXCEPT ![c] = Dispatch(calls[c], cookies)]
    /\ authStore' = LoggedOut
    /\ href' = "/auth/login"
    /\ logout' = [pc |-> "waiting", call |-> c]
    /\ UNCHANGED <<cookies, issued, refreshPosts>>
    /\ UNCHANGED <<serverVars, otherVars>>

LogoutCallSettled ==
    /\ logout.pc = "waiting"
    /\ calls[logout.call].pc \in {"resolved", "rejected"}

\* Variant: the cookies are removed only when the upstream call succeeded.
LogoutSettledOnSuccess ==
    /\ LogoutCallSettled
    /\ cookies' = IF calls[logout.call].pc = "resolved" THEN NoCookies ELSE cookies
    /\ logout' = [logout EXCEPT !.pc = "done"]
    /\ UNCHANGED <<calls, issued, refreshPosts, href, authStore>>
    /\ UNCHANGED <<serverVars, otherVars>>

\* api.logout() after its upstream call settled: the error, if any, is
\* swallowed and both token cookies are removed (finally).
LogoutSettled ==
    /\ LogoutCallSettled
    /\ cookies' = NoCookies
    /\ logout' = [logout EXCEPT !.pc = "done"]
    /\ UNCHANGED <<calls, issued, refreshPosts, href, authStore>>
    /\ UNCHANGED <<serverVars, otherVars>>

ServerIdle ==
    /\ db = [team_members |-> {}, members |-> {}]
    /\ req = NoRequest
    /\ route = "GET /settings"
    /\ pc = "idle"
    /\ idx = 1
    /\ res = NoResponse
    /\ trace = <<>>
    /\ clock = 0

InitClient ==
    /\ ServerIdle
    /\ cookies \in [token : {Null, "t0"}, refresh : {Null, "r0"}]
    /\ calls = [c \in CallIds |-> NewCall]
    /\ issued = 0
    /\ refreshPosts = 0
    /\ href = "/"
    /\ authStore \in {LoggedOut, LoggedIn}
    /\ logout = NoLogout
    /\ AuthIdle
    /\ LimiterIdle
    /\ ExtraIdle

NextClient ==
    \/ \E c \in CallIds : Request(c)
    \/ \E c \in CallIds : ResponseOk(c)
    \/ \E c \in CallIds, status \in {401, 403, 500} : ResponseError(c, status)
    \/ \E c \in CallIds : RefreshResolved(c)
    \/ \E c \in CallIds : RefreshRejected(c)
    \/ \E c \in CallIds : Logout(c)
    \/ LogoutSettled

SpecClient == InitClient /\ [][NextClient]_vars

-----------------------------------------------------------------------------
(* Auth API: POST /auth/login and POST /auth/refresh-token                 *)

\* body('email').isEmail(): something@something.
IsEmail(e) == \E i \in 2 .. (Len(e) - 1) : e[i] = "@"

\* The route's validation rules followed by validateRequest.
AuthValidationDecision(body) ==
    IF body.kind = "login" /\ (~IsEmail(body.email) \/ Falsy(body.password))
    THEN ValidationError("Validation failed")
    ELSE IF body.kind = "refresh-token" /\ Falsy(body.refreshToken)
    THEN ValidationError("Validation failed")
    ELSE NoResponse

\* supabase.auth.signInWithPassword: the provider answers a wrong password
\* and an unregistered email with the same error.
signInWithPassword(email, password) ==
    IF email = KnownEmail /\ password = Password
    THEN [called |-> TRUE, thrown |-> FALSE, error |-> Null,
          session |-> [accessToken |-> "t0", refreshToken |-> "r0"]]
    ELSE [called |-> TRUE, thrown |-> FALSE, error |-> "Invalid login credentials",
          session |-> NoSession]

\* supabase.auth.refreshSession: the replies the provider can give for a
\* refresh token: a new session, an error, a reply with neither, or no reply
\* at all (the call throws).
refreshSession(token) ==
    {[called |-> TRUE, thrown |-> TRUE, error |-> Null, session |-> NoSession]}
    \cup
    (IF token = "r0"
     THEN {[called |-> TRUE, thrown |-> FALSE, error |-> Null,
            session |-> [accessToken |-> "t1", refreshToken |-> "r1"]],
           [called |-> TRUE, thrown |-> FALSE, error |-> Null, session |-> NoSession]}
     ELSE {[called |-> TRUE, thrown |-> FALSE, error |-> "Invalid Refresh Token",
            session |-> NoSession]})

\* Variant: every membership status counts as an active account.
authControllerGetUserProfileAllActive(store, userId) ==
    IF TeamLookup(store) # {}
    THEN StaffIdentity(CHOOSE r \in TeamLookup(store) : TRUE, userId)
    ELSE IF MemberLookup(store) # {}
    THEN [MemberIdentity(CHOOSE r \in MemberLookup(store) : TRUE, userId)
            EXCEPT !.isActive = TRUE]
    ELSE ProfileNotFound

\* getUserProfile of the controller: the active staff row if there is one,
\* else the member row, else 'User profile not found'.
authControllerGetUserProfile(store, userId) ==
    IF TeamLookup(store) # {}
    THEN StaffIdentity(CHOOSE r \in TeamLookup(store) : TRUE, userId)
    ELSE IF MemberLookup(store) # {}
    THEN MemberIdentity(CHOOSE r \in MemberLookup(store) : TRUE, userId)
    ELSE ProfileNotFound

AuthRespond(err) ==
    [statusCode |-> err.statusCode, message |-> err.message, session |-> NoSession]

\* Variant: the controller words the failure after the credential at fault.
LoginResponseRevealing(body, reply, userProfile) ==
    IF ~Falsy(reply.error)
    THEN AuthRespond(AuthenticationError(
            IF body.email = KnownEmail THEN "Incorrect password"
            ELSE "No account with this email"))
    ELSE IF userProfile = ProfileNotFound
    THEN AuthRespond(AuthenticationError("User profile not found"))
    ELSE IF ~userProfile.isActive
    THEN AuthRespond(AuthenticationError(
            "Your account has been deactivated. Please contact support."))
    ELSE [statusCode |-> 200, message |-> "Login successful", session |-> reply.session]

\* What login answers, given the provider's reply and the resolved profile.
LoginResponse(body, reply, userProfile) ==
    IF ~Falsy(reply.error)
    THEN AuthRespond(AuthenticationError(reply.error))
    ELSE IF userProfile = ProfileNotFound
    THEN AuthRespond(AuthenticationError("User profile not found"))
    ELSE IF ~userProfile.isActive
    THEN AuthRespond(AuthenticationError(
            "Your account has been deactivated. Please contact support."))
    ELSE [statusCode |-> 200, message |-> "Login successful", session |-> reply.session]

\* An error that is not operational reaches the caller as a 500.
InternalError(msg) == [statusCode |-> 500, message |-> msg]

\* What the try block of refreshToken throws, if anything.
RefreshThrown(reply) ==
    IF reply.thrown THEN InternalError("fetch failed")
    ELSE IF ~Falsy(reply.error) THEN AuthenticationError("Invalid refresh token")
    ELSE IF reply.session = NoSession
    THEN InternalError("Cannot read properties of null")
    ELSE NoResponse

\* Variant: the catch block passes the error on unchanged.
RefreshCatchRethrow(error) == error

\* The catch block of refreshToken replaces every error.
RefreshCatch(error) == AuthenticationError("Token refresh failed")

\* A request to one of the two endpoints arrives.
AuthReceive ==
    /\ apc = "idle"
    /\ \/ \E e \in Emails, p \in Passwords :
            areq' = [kind |-> "login", email |-> e, password |-> p,
                     refreshToken |-> Null]
       \/ \E t \in RefreshTokens :
            areq' = [kind |-> "refresh-token", email |-> <<>>, password |-> Null,
                     refreshToken |-> t]
    /\ apc' = "validate"
    /\ ares' = NoAuthResponse
    /\ provider' = NoReply
    /\ UNCHANGED loginLog
    /\ UNCHANGED <<serverVars, clientVars, limiterVars, extraVars>>

AuthValidate ==
    /\ apc = "validate"
    /\ IF AuthValidationDecision(areq) # NoResponse
       THEN /\ ares' = AuthRespond(AuthValidationDecision(areq))
            /\ apc' = "done"
       ELSE /\ apc' = "controller"
            /\ UNCHANGED ares
    /\ UNCHANGED <<areq, provider, loginLog>>
    /\ UNCHANGED <<serverVars, clientVars, limiterVars, extraVars>>

login ==
    /\ apc = "controller"
    /\ areq.kind = "login"
    /\ LET reply == signInWithPassword(areq.email, areq.password)
           answer == LoginResponse(areq, reply, authControllerGetUserProfile(db, Subject)) IN
       /\ provider' = reply
       /\ ares' = answer
       /\ loginLog' = loginLog \cup
              {[email |-> areq.email, password |-> areq.password,
                statusCode |-> answer.statusCode, message |-> answer.message]}
    /\ apc' = "done"
    /\ UNCHANGED areq
    /\ UNCHANGED <<serverVars, clientVars, limiterVars, extraVars>>

refreshToken ==
    /\ apc = "controller"
    /\ areq.kind = "refresh-token"
    /\ \E reply \in refreshSession(areq.refreshToken) :
          /\ provider' = reply
          /\ ares' = IF RefreshThrown(reply) # NoResponse
                     THEN AuthRespond(RefreshCatch(RefreshThrown(reply)))
                     ELSE [statusCode |-> 200, message |-> "success",
                           session |-> reply.session]
    /\ apc' = "done"
    /\ UNCHANGED <<areq, loginLog>>
    /\ UNCHANGED <<serverVars, clientVars, limiterVars, extraVars>>

AuthFinish ==
    /\ apc = "done"
    /\ apc' = "idle"
    /\ areq' = NoAuthRequest
    /\ ares' = NoAuthResponse
    /\ provider' = NoReply
    /\ UNCHANGED loginLog
    /\ UNCHANGED <<serverVars, clientVars, limiterVars, extraVars>>

InitAuth ==
    /\ db \in Stores
    /\ req = NoRequest
    /\ route = "GET /settings"
    /\ pc = "idle"
    /\ idx = 1
    /\ res = NoResponse
    /\ trace = <<>>
    /\ clock = 0
    /\ ClientIdle
    /\ AuthIdle
    /\ LimiterIdle
    /\ ExtraIdle

NextAuth ==
    \/ AuthReceive
    \/ AuthValidate
    \/ login
    \/ refreshToken
    \/ AuthFinish

SpecAuth == InitAuth /\ [][NextAuth]_vars

-----------------------------------------------------------------------------
(* Rate limiting: the application's middleware stack                       *)

RateLimitMaxRequests == 100   \* max of limiter when the environment sets none
StrictMax == 10               \* max of strictLimiter

TooManyRequests(msg) == [statusCode |-> 429, message |-> msg]
NotFound == [statusCode |-> 404, message |-> "Not found"]

API_PREFIX == <<"api", "v1">>

\* The layers in the order app.use installs them, each with its mount path.
Stack ==
    << [mw |-> "limiter", at |-> <<"api">>],
       [mw |-> "strictLimiter", at |-> <<"api", "auth", "login">>],
       [mw |-> "strictLimiter", at |-> <<"api", "auth", "register">>],
       [mw |-> "authRoutes", at |-> API_PREFIX \o <<"auth">>],
       [mw |-> "memberRoutes", at |-> API_PREFIX \o <<"members">>],
       [mw |-> "notFound", at |-> <<>>] >>

\* app.use(path, mw): the layer runs for a request whose path starts with
\* the mount path.
RECURSIVE NextLayer(_, _)
NextLayer(path, i) ==
    IF i > Len(Stack) THEN i
    ELSE IF StartsWith(path, Stack[i].at) THEN i
    ELSE NextLayer(path, i + 1)

\* The path as the layer sees it: the part after the mount path.
MountedPath(path, at) == SubSeq(path, Len(at) + 1, Len(path))

\* skip of limiter: req.path === '/api/health', req.path being relative to
\* the mount path.
LimiterSkips(path) == MountedPath(path, <<"api">>) = <<"api", "health">>

\* defaultLimits of roleBasedRateLimit.
roleLimits ==
    [r \in CallerRoles |->
        CASE r = "admin" -> 1000
          [] r = "staff" -> 500
          [] r = "member" -> 100
          [] r = "anonymous" -> 50]

Requests == hits["ip1"] + hits["ip2"]

\* A request arrives from some origin, sent by a caller of some role.
Arrive ==
    /\ lpc = "idle"
    /\ Requests < MaxRequests
    /\ \E ip \in IPs, path \in Paths, role \in CallerRoles :
          /\ lreq' = [ip |-> ip, path |-> path, role |-> role, limit |-> 0]
          /\ lidx' = NextLayer(path, 1)
    /\ lpc' = "stack"
    /\ lres' = NoResponse
    /\ UNCHANGED <<hits, strictHits, reached>>
    /\ UNCHANGED <<serverVars, clientVars, authVars, extraVars>>

AtLayer(mw) == lpc = "stack" /\ lidx <= Len(Stack) /\ Stack[lidx].mw = mw

\* The general rate limiter: count the request against its origin, reject it
\* when the count exceeds max.
Limiter ==
    /\ AtLayer("limiter")
    /\ IF LimiterSkips(lreq.path)
       THEN /\ lidx' = NextLayer(lreq.path, lidx + 1)
            /\ UNCHANGED <<hits, lreq, lpc, lres>>
       ELSE /\ hits' = [hits EXCEPT ![lreq.ip] = @ + 1]
            /\ lreq' = [lreq EXCEPT !.limit = RateLimitMaxRequests]
            /\ IF hits'[lreq.ip] > RateLimitMaxRequests
               THEN /\ lres' = TooManyRequests("Too many requests from this IP, please try again later.")
                    /\ lpc' = "done"
                    /\ UNCHANGED lidx
               ELSE /\ lidx' = NextLayer(lreq.path, lidx + 1)
                    /\ UNCHANGED <<lpc, lres>>
    /\ UNCHANGED <<strictHits, reached>>
    /\ UNCHANGED <<serverVars, clientVars, authVars, extraVars>>

\* The strict rate limiter of the authentication endpoints.
StrictLimiter ==
    /\ AtLayer("strictLimiter")
    /\ strictHits' = [strictHits EXCEPT ![lreq.ip] = @ + 1]
    /\ lreq' = [lreq EXCEPT !.limit = StrictMax]
    /\ IF strictHits'[lreq.ip] > StrictMax
       THEN /\ lres' = TooManyRequests("Too many authentication attempts, please try again later.")
            /\ lpc' = "done"
            /\ UNCHANGED lidx
       ELSE /\ lidx' = NextLayer(lreq.path, lidx + 1)
            /\ UNCHANGED <<lpc, lres>>
    /\ UNCHANGED <<hits, reached>>
    /\ UNCHANGED <<serverVars, clientVars, authVars, extraVars>>

\* A router takes the request: its handler chain runs and answers.
Router ==
    /\ \/ AtLayer("authRoutes")
       \/ AtLayer("memberRoutes")
    /\ reached' = IF lreq.path = LoginPath
                  THEN [reached EXCEPT ![lreq.ip] = @ + 1]
                  ELSE reached
    /\ lres' = Success
    /\ lpc' = "done"
    /\ UNCHANGED <<hits, strictHits, lreq, lidx>>
    /\ UNCHANGED <<serverVars, clientVars, authVars, extraVars>>

\* No route matched.
NotFoundHandler ==
    /\ AtLayer("notFound")
    /\ lres' = NotFound
    /\ lpc' = "done"
    /\ UNCHANGED <<hits, strictHits, reached, lreq, lidx>>
    /\ UNCHANGED <<serverVars, clientVars, authVars, extraVars>>

LimitFinish ==
    /\ lpc = "done"
    /\ lpc' = "idle"
    /\ lreq' = NoLimitRequest
    /\ lidx' = 1
    /\ lres' = NoResponse
    /\ UNCHANGED <<hits, strictHits, reached>>
    /\ UNCHANGED <<serverVars, clientVars, authVars, extraVars>>

\* windowMs has passed: the counters of the window are dropped.
WindowReset ==
    /\ lpc = "idle"
    /\ Requests > 0
    /\ hits' = [i \in IPs |-> 0]
    /\ strictHits' = [i \in IPs |-> 0]
    /\ reached' = [i \in IPs |-> 0]
    /\ UNCHANGED <<lreq, lidx, lpc, lres>>
    /\ UNCHANGED <<serverVars, clientVars, authVars, extraVars>>

InitLimit ==
    /\ ServerIdle
    /\ ClientIdle
    /\ AuthIdle
    /\ LimiterIdle
    /\ ExtraIdle

NextLimit ==
    \/ Arrive
    \/ Limiter
    \/ StrictLimiter
    \/ Router
    \/ NotFoundHandler
    \/ LimitFinish
    \/ WindowReset

SpecLimit == InitLimit /\ [][NextLimit]_vars

-----------------------------------------------------------------------------
(* Error handling: what the caller receives for an error passed to next()  *)

\* new AppError(message, statusCode) and its subclasses.
AppError(kind, msg, statusCode) ==
    ErrorObject(kind, Null, msg, "at " \o kind, statusCode, TRUE, <<>>)

\* Errors a middleware, a handler or a collaborator can throw: the
\* operational classes, built-in exceptions, a token-library error and
\* errors of the datastore client.
ThrownErrors ==
    { AppError("AuthenticationError", "Invalid or expired token", 401),
      AppError("AuthenticationError", "Your account has been deactivated.", 401),
      AppError("AuthorizationError", "Insufficient permissions", 403),
      AppError("AuthorizationError", "Access denied to this gym location", 403),
      AppError("TooManyRequestsError", "Too many requests", 429),
      AppError("ValidationError", "Validation failed", 400),
      AppError("NotFoundError", "Resource not found", 404),
      ErrorObject("TypeError", Null, "Cannot read properties of undefined",
                  "at getAllMembers (memberController.js)", 0, FALSE, <<>>),
      ErrorObject("Error", Null, "connect ECONNREFUSED 10.0.0.5:5432",
                  "at TCPConnectWrap", 0, FALSE, <<>>),
      ErrorObject("JsonWebTokenError", "JsonWebTokenError", "jwt malformed",
                  "at verify", 0, FALSE, <<>>),
      ErrorObject("PostgrestError", Null, "duplicate key value members_email_key",
                  Null, 0, FALSE, <<"2", "3", "5", "0", "5">>),
      ErrorObject("PostgrestError", Null, "relation members_private does not exist",
                  Null, 0, FALSE, <<"4", "2", "P", "0", "1">>),
      ErrorObject("PostgrestError", Null, "JSON object requested, multiple rows returned",
                  Null, 0, FALSE, <<"P", "G", "R", "S", "T", "1", "1", "6">>) }

Envs == {"development", "production", "test"}
Entries == {"server.js", "errorHandler.js"}

\* The error-handling middleware of server.js.
serverErrorHandler(err) ==
    [statusCode |-> IF err.statusCode # 0 THEN err.statusCode ELSE 500,
     message |-> Or(err.message, "Something went wrong!"),
     stack |-> Null]

sendErrorDev(err) ==
    [statusCode |-> IF err.statusCode # 0 THEN err.statusCode ELSE 500,
     message |-> err.message,
     stack |-> err.stack]

sendErrorProd(err) ==
    IF err.isOperational
    THEN [statusCode |-> IF err.statusCode # 0 THEN err.statusCode ELSE 500,
          message |-> err.message, stack |-> Null]
    ELSE [statusCode |-> 500, message |-> "Something went wrong!", stack |-> Null]

handleSupabaseError(err) ==
    IF err.code = <<"2", "3", "5", "0", "5">>
    THEN AppError("ConflictError", "Duplicate entry. This record already exists.", 409)
    ELSE IF err.code = <<"2", "3", "5", "0", "3">>
    THEN AppError("AppError", "Referenced record does not exist.", 400)
    ELSE IF err.code = <<"4", "2", "P", "0", "1">>
    THEN AppError("AppError", "Database table does not exist.", 500)
    ELSE AppError("AppError", "Database operation failed.", 500)

\* globalErrorHandler of errorHandler.js: statusCode defaults to 500; in
\* development the error is sent whole, otherwise it is copied, translated
\* by name and by code, and sent by sendErrorProd.
globalErrorHandler(err, env) ==
    LET e0 == [err EXCEPT !.statusCode = IF @ # 0 THEN @ ELSE 500]
        e1 == IF e0.name = "JsonWebTokenError"
              THEN AppError("AuthenticationError",
                            "Invalid token. Please log in again!", 401)
              ELSE e0
        e2 == IF Len(e1.code) = 5 THEN handleSupabaseError(e1) ELSE e1
    IN IF env = "development" THEN sendErrorDev(e0) ELSE sendErrorProd(e2)

\* A middleware or handler passes an error to next().
Throw ==
    /\ epc = "idle"
    /\ thrown' \in ThrownErrors
    /\ epc' = "thrown"
    /\ UNCHANGED <<entry, nodeEnv, eres>>
    /\ UNCHANGED <<serverVars, clientVars, authVars, limiterVars, memberVars, lateVars>>

ServerErrorHandler ==
    /\ epc = "thrown"
    /\ entry = "server.js"
    /\ eres' = serverErrorHandler(thrown)
    /\ epc' = "done"
    /\ UNCHANGED <<entry, nodeEnv, thrown>>
    /\ UNCHANGED <<serverVars, clientVars, authVars, limiterVars, memberVars, lateVars>>

GlobalErrorHandler ==
    /\ epc = "thrown"
    /\ entry = "errorHandler.js"
    /\ eres' = globalErrorHandler(thrown, nodeEnv)
    /\ epc' = "done"
    /\ UNCHANGED <<entry, nodeEnv, thrown>>
    /\ UNCHANGED <<serverVars, clientVars, authVars, limiterVars, memberVars, lateVars>>

ErrorFinish ==
    /\ epc = "done"
    /\ epc' = "idle"
    /\ thrown' = NoError
    /\ eres' = NoErrorResponse
    /\ UNCHANGED <<entry, nodeEnv>>
    /\ UNCHANGED <<serverVars, clientVars, authVars, limiterVars, memberVars, lateVars>>

InitError ==
    /\ ServerIdle
    /\ ClientIdle
    /\ AuthIdle
    /\ LimiterIdle
    /\ MembersIdle
    /\ LateIdle
    /\ entry \in Entries
    /\ nodeEnv \in Envs
    /\ thrown = NoError
    /\ epc = "idle"
    /\ eres = NoErrorResponse

NextError ==
    \/ Throw
    \/ ServerErrorHandler
    \/ GlobalErrorHandler
    \/ ErrorFinish

SpecError == InitError /\ [][NextError]_vars

-----------------------------------------------------------------------------
(* Member management: list, update, suspend, activate                      *)

NotFoundError(msg) == [statusCode |-> 404, message |-> msg]
ConflictError(msg) == [statusCode |-> 409, message |-> msg]

MemberRespond(err) == [statusCode |-> err.statusCode, message |-> err.message, items |-> {}]
MemberSuccess(msg, items) == [statusCode |-> 200, message |-> msg, items |-> items]

\* query.eq('gym_location_id', l) on the members table.
AtLocation(table, l) == {m \in DOMAIN table : table[m].gym_location_id = l}

\* GET / of routes/members.js: validateRequest and restrictToGymLocation,
\* then a handler that answers with an empty list.
ListMembersMounted(r) ==
    LET q == [params |-> Null, query |-> r.gymLocationId, body |-> Null]
    IN IF ValidateRequestDecision(q) # NoResponse
       THEN MemberRespond(ValidateRequestDecision(q))
       ELSE IF RestrictToGymLocationDecision(r.user, q) # NoResponse
       THEN MemberRespond(RestrictToGymLocationDecision(r.user, q))
       ELSE MemberSuccess("Members endpoint - Coming soon", {})

\* GET / of the full members routes: staff are pinned to their location,
\* others may filter by gymLocationId.
ListMembersFull(r, table) ==
    MemberSuccess("success",
        IF r.user.role = "staff" THEN AtLocation(table, r.user.gymLocationId)
        ELSE IF ~Falsy(r.gymLocationId) THEN AtLocation(table, r.gymLocationId)
        ELSE DOMAIN table)

\* getAllMembers: the staff restriction, then applyMemberFilters on top.
getAllMembers(r, table) ==
    LET scoped == IF r.user.role = "staff"
                  THEN AtLocation(table, r.user.gymLocationId)
                  ELSE DOMAIN table
    IN MemberSuccess("success",
          IF ~Falsy(r.gymLocationId)
          THEN scoped \cap AtLocation(table, r.gymLocationId)
          ELSE scoped)

\* The outcome of a changing operation: the response and the new table.
Outcome(response, table) == [response |-> response, table |-> table]
SetStatus(table, id, status) ==
    [table EXCEPT ![id].membership_status = status]

\* PUT /:id (update of first_name).
UpdateOutcome(version, r, table) ==
    IF version = "routes/members.js"
    THEN Outcome(MemberSuccess("Update member endpoint - Coming soon", {}), table)
    ELSE IF version = "members routes (full)"
    THEN IF r.id \notin DOMAIN table
            \/ (r.user.role = "staff"
                  /\ table[r.id].gym_location_id # r.user.gymLocationId)
         THEN Outcome(MemberRespond(NotFoundError("Member not found or access denied")), table)
         ELSE Outcome(MemberSuccess("Member updated successfully", {r.id}),
                      [table EXCEPT ![r.id].first_name = "B"])
    ELSE IF r.user.role = "staff"
            /\ (r.id \notin DOMAIN table
                  \/ table[r.id].gym_location_id # r.user.gymLocationId)
         THEN Outcome(MemberRespond(AuthorizationError("Access denied to this member")), table)
         ELSE IF r.id \notin DOMAIN table
         THEN Outcome(MemberRespond(InternalError("Failed to update member")), table)
         ELSE Outcome(MemberSuccess("Member updated successfully", {r.id}),
                      [table EXCEPT ![r.id].first_name = "B"])

\* POST /:id/suspend.
SuspendOutcome(version, r, table) ==
    IF version = "routes/members.js"
    THEN Outcome(MemberSuccess("Suspend member endpoint - Coming soon", {}), table)
    ELSE IF version = "members routes (full)"
    THEN IF r.id \notin DOMAIN table
         THEN Outcome(MemberRespond(InternalError("Failed to suspend member")), table)
         ELSE Outcome(MemberSuccess("Member suspended successfully", {r.id}),
                      SetStatus(table, r.id, "suspended"))
    ELSE IF r.user.role = "staff"
            /\ (r.id \notin DOMAIN table
                  \/ table[r.id].gym_location_id # r.user.gymLocationId)
         THEN Outcome(MemberRespond(AuthorizationError("Access denied to this member")), table)
         ELSE IF r.user.role = "staff" /\ table[r.id].membership_status = "suspended"
         THEN Outcome(MemberRespond(ConflictError("Member is already suspended")), table)
         ELSE IF r.id \notin DOMAIN table
         THEN Outcome(MemberRespond(InternalError("Failed to suspend member")), table)
         ELSE Outcome(MemberSuccess("Member suspended successfully", {r.id}),
                      SetStatus(table, r.id, "suspended"))

\* POST /:id/activate (reactivateMember in the controller).
ActivateOutcome(version, r, table) ==
    IF version = "routes/members.js"
    THEN Outcome(MemberSuccess("Activate member endpoint - Coming soon", {}), table)
    ELSE IF r.id \notin DOMAIN table
    THEN Outcome(MemberRespond(InternalError(
            IF version = "members routes (full)" THEN "Failed to activate member"
            ELSE "Failed to reactivate member")), table)
    ELSE Outcome(MemberSuccess(
            IF version = "members routes (full)" THEN "Member activated successfully"
            ELSE "Member reactivated successfully", {r.id}),
            SetStatus(table, r.id, "active"))

\* A request that passed protect and restrictTo('admin', 'staff') arrives.
MembersReceive ==
    /\ mpc = "idle"
    /\ \E u \in Operators :
          \/ \E l \in {Null} \cup Locations :
                mreq' = [op |-> "list", user |-> u, id |-> Null, gymLocationId |-> l]
          \/ \E o \in {"update", "suspend", "activate"},
                i \in MemberIds \cup {UnknownMemberId} :
                mreq' = [op |-> o, user |-> u, id |-> i, gymLocationId |-> Null]
    /\ mpc' = "handler"
    /\ mres' = NoMemberResponse
    /\ UNCHANGED <<impl, members>>
    /\ UNCHANGED <<serverVars, clientVars, authVars, limiterVars, errorVars, lateVars>>

ListMembers ==
    /\ mpc = "handler"
    /\ mreq.op = "list"
    /\ mres' = CASE impl = "routes/members.js" -> ListMembersMounted(mreq)
                 [] impl = "members routes (full)" -> ListMembersFull(mreq, members)
                 [] OTHER -> getAllMembers(mreq, members)
    /\ mpc' = "done"
    /\ UNCHANGED <<impl, members, mreq>>
    /\ UNCHANGED <<serverVars, clientVars, authVars, limiterVars, errorVars, lateVars>>

\* A changing operation: the response is sent and the table written.
Change(outcome) ==
    /\ mres' = outcome.response
    /\ members' = outcome.table
    /\ mpc' = "done"
    /\ UNCHANGED <<impl, mreq>>
    /\ UNCHANGED <<serverVars, clientVars, authVars, limiterVars, errorVars, lateVars>>

UpdateMember ==
    /\ mpc = "handler"
    /\ mreq.op = "update"
    /\ Change(UpdateOutcome(impl, mreq, members))

SuspendMember ==
    /\ mpc = "handler"
    /\ mreq.op = "suspend"
    /\ Change(SuspendOutcome(impl, mreq, members))

ActivateMember ==
    /\ mpc = "handler"
    /\ mreq.op = "activate"
    /\ Change(ActivateOutcome(impl, mreq, members))

MembersFinish ==
    /\ mpc = "done"
    /\ mpc' = "idle"
    /\ mreq' = NoMemberRequest
    /\ mres' = NoMemberResponse
    /\ UNCHANGED <<impl, members>>
    /\ UNCHANGED <<serverVars, clientVars, authVars, limiterVars, errorVars, lateVars>>

InitMembers ==
    /\ ServerIdle
    /\ ClientIdle
    /\ AuthIdle
    /\ LimiterIdle
    /\ ErrorIdle
    /\ LateIdle
    /\ impl \in Implementations
    /\ members \in MemberTables
    /\ mreq = NoMemberRequest
    /\ mpc = "idle"
    /\ mres = NoMemberResponse

NextMembers ==
    \/ MembersReceive
    \/ ListMembers
    \/ UpdateMember
    \/ SuspendMember
    \/ ActivateMember
    \/ MembersFinish

SpecMembers == InitMembers /\ [][NextMembers]_vars

-----------------------------------------------------------------------------
(* Status updates between requests (updateUserStatus)                      *)

\* The writes of updateUserStatus for the subject: the member row if the
\* members lookup finds one, else the staff rows.
updateUserStatus(store, isActive) ==
    IF MemberLookup(store) # {}
    THEN [store EXCEPT !.members =
            {[m EXCEPT !.membership_status =
                  IF isActive THEN "active" ELSE "suspended"] : m \in store.members}]
    ELSE [store EXCEPT !.team_members =
            {[t EXCEPT !.is_active = isActive] : t \in store.team_members}]

\* The caller sends its next request with the access token it holds.
ReceiveAgain ==
    /\ pc = "idle"
    /\ \E r \in DOMAIN Routes, l \in {Null} \cup Locations :
          /\ req' = [NoRequest EXCEPT !.authorization = BearerPrefix \o <<"a">>,
                                      !.query = l]
          /\ route' = r
    /\ pc' = "protect"
    /\ idx' = 1
    /\ res' = NoResponse
    /\ trace' = <<>>
    /\ clock' = 0
    /\ history' = [history EXCEPT !.after = history.updated]
    /\ UNCHANGED db
    /\ UNCHANGED <<clientVars, authVars, limiterVars, errorVars, memberVars, permVars, storeVars>>

\* An administrator changes the subject's status after a request of the
\* subject was answered and before its next one arrives.
UpdateUserStatus ==
    /\ pc = "done"
    /\ \E isActive \in BOOLEAN :
          /\ db' = updateUserStatus(db, isActive)
          /\ history' = [before |-> req.user, updated |-> TRUE,
                         isActive |-> isActive, after |-> FALSE]
    /\ UNCHANGED <<req, route, pc, idx, res, trace, clock>>
    /\ UNCHANGED <<clientVars, authVars, limiterVars, errorVars, memberVars, permVars, storeVars>>

InitStatus ==
    /\ db \in Stores
    /\ req = NoRequest
    /\ route = "GET /settings"
    /\ pc = "idle"
    /\ idx = 1
    /\ res = NoResponse
    /\ trace = <<>>
    /\ clock = 0
    /\ ClientIdle
    /\ AuthIdle
    /\ LimiterIdle
    /\ ErrorIdle
    /\ MembersIdle
    /\ PermissionsIdle
    /\ StoreIdle
    /\ history = NoHistory

NextStatus ==
    \/ ReceiveAgain
    \/ protect
    \/ RestrictTo
    \/ RequirePermission
    \/ RestrictToGymLocation
    \/ RequireActiveMembership
    \/ ValidateRequest
    \/ Handler
    \/ Finish
    \/ UpdateUserStatus

SpecStatus == InitStatus /\ [][NextStatus]_vars

-----------------------------------------------------------------------------
(* Permission checks: usePermissions.hasPermission and requirePermission   *)

\* The user object the client holds is the identity the server resolved
\* (login and /auth/me answer with it), or null.
Viewers ==
    {NoUser}
    \cup {StaffIdentity(t, Subject) : t \in TeamRows}
    \cup {MemberIdentity(m, Subject) : m \in MemberRows}

\* Variant: a team member holds every capability named in its map.
hasPermissionListed(user, permission) ==
    IF user = NoUser THEN FALSE
    ELSE IF user.role = "admin" THEN TRUE
    ELSE IF user.type = "team_member"
    THEN permission \in DOMAIN user.permissions
    ELSE FALSE

\* usePermissions().hasPermission(permission)
hasPermission(user, permission) ==
    IF user = NoUser THEN FALSE
    ELSE IF user.role = "admin" THEN TRUE
    ELSE IF user.type = "team_member"
    THEN /\ permission \in DOMAIN user.permissions
         /\ user.permissions[permission] = "true"
    ELSE FALSE

\* A component is rendered for a user and asks about a capability.
PickCheck ==
    /\ pcheck.asked = {"client", "server"}
    /\ \E u \in Viewers, c \in Capabilities :
          pcheck' = [NoCheck EXCEPT !.user = u, !.permission = c, !.asked = {}]
    /\ UNCHANGED <<serverVars, clientVars, authVars, limiterVars, errorVars,
                   memberVars, statusVars, storeVars>>

ClientHasPermission ==
    /\ "client" \notin pcheck.asked
    /\ pcheck' = [pcheck EXCEPT
                    !.client = hasPermission(pcheck.user, pcheck.permission),
                    !.asked = @ \cup {"client"}]
    /\ UNCHANGED <<serverVars, clientVars, authVars, limiterVars, errorVars,
                   memberVars, statusVars, storeVars>>

\* The same identity reaches requirePermission(permission) on the server.
ServerRequirePermission ==
    /\ "server" \notin pcheck.asked
    /\ pcheck' = [pcheck EXCEPT
                    !.server = RequirePermissionDecision(pcheck.user, {pcheck.permission}),
                    !.asked = @ \cup {"server"}]
    /\ UNCHANGED <<serverVars, clientVars, authVars, limiterVars, errorVars,
                   memberVars, statusVars, storeVars>>

InitPermissions ==
    /\ ServerIdle
    /\ ClientIdle
    /\ AuthIdle
    /\ LimiterIdle
    /\ ErrorIdle
    /\ MembersIdle
    /\ StatusIdle
    /\ StoreIdle
    /\ pcheck = NoCheck

NextPermissions ==
    \/ PickCheck
    \/ ClientHasPermission
    \/ ServerRequirePermission

SpecPermissions == InitPermissions /\ [][NextPermissions]_vars

-----------------------------------------------------------------------------
(* Session store (useAuthStore) and the useAuth hook                       *)

MaxOps == 3

Hooks == {"hooks/useAuth.ts", "useAuth (verify on change)", "useAuth (initialize once)"}

\* The user object after updateUser merged a change into it.
UpdatedUser == "u1+"

NewOp(op, by) == [op |-> op, by |-> by, pc |-> "waiting"]
Waiting(i, op) == i \in DOMAIN ops /\ ops[i].op = op /\ ops[i].pc = "waiting"

\* set({ user, token, isAuthenticated: true, isLoading: false }) of login
LoginSet(state, response) ==
    [user |-> response.user, token |-> response.session.accessToken,
     isAuthenticated |-> TRUE]

\* Variant: the profile refresh stores the user only.
ProfileSetUserOnly(state, user) == [state EXCEPT !.user = user]

\* set({ user: response.user, isAuthenticated: true }) of refreshToken
ProfileSet(state, user) == [state EXCEPT !.user = user, !.isAuthenticated = TRUE]

\* if (requireAuth && !isLoading && !isAuthenticated) router.push('/auth/login')
Redirect(initialized, loading, state, location) ==
    IF initialized /\ ~loading /\ ~state.isAuthenticated
    THEN "/auth/login" ELSE location

\* persist: the stored entry is read into the store.
Rehydrate ==
    /\ authStore' = storage
    /\ hydrated' = TRUE
    /\ UNCHANGED <<isLoading, storage, hook, hasInitialized, effectDue, ops>>
    /\ UNCHANGED <<cookies, calls, issued, refreshPosts, href, logout>>
    /\ UNCHANGED <<serverVars, authVars, limiterVars, errorVars, memberVars,
                   statusVars, permVars>>

\* refreshToken(): nothing without a user; else GET /auth/me is started.
StartProfileRefresh(by) ==
    IF Falsy(authStore.user) \/ ~authStore.isAuthenticated
    THEN ops
    ELSE Append(ops, NewOp("getProfile", by))

\* The effect of useAuth runs (on mount and when a dependency changed).
HookEffect ==
    /\ hydrated
    /\ effectDue
    /\ Len(ops) < MaxOps
    /\ effectDue' = FALSE
    /\ CASE hook = "hooks/useAuth.ts" ->
              IF ~Falsy(authStore.user) /\ ~isLoading /\ ~hasInitialized
              THEN /\ ops' = StartProfileRefresh("hook")
                   /\ hasInitialized' = (ops' = ops)
              ELSE /\ hasInitialized' =
                        (hasInitialized \/ (Falsy(authStore.user) /\ ~isLoading))
                   /\ UNCHANGED ops
         [] hook = "useAuth (verify on change)" ->
              /\ ops' = IF ~Falsy(authStore.user) /\ ~isLoading
                        THEN StartProfileRefresh("hook") ELSE ops
              /\ hasInitialized' = TRUE
         [] OTHER ->
              /\ hasInitialized' = TRUE
              /\ UNCHANGED ops
    /\ href' = Redirect(hasInitialized', isLoading, authStore, href)
    /\ UNCHANGED <<authStore, isLoading, storage, hydrated, hook>>
    /\ UNCHANGED <<cookies, calls, issued, refreshPosts, logout>>
    /\ UNCHANGED <<serverVars, authVars, limiterVars, errorVars, memberVars,
                   statusVars, permVars>>

\* login(credentials), up to await api.login.
StoreLogin ==
    /\ hydrated
    /\ Len(ops) < MaxOps
    /\ isLoading' = TRUE
    /\ ops' = Append(ops, NewOp("login", "app"))
    /\ effectDue' = (effectDue \/ ~isLoading)
    /\ UNCHANGED <<authStore, storage, hydrated, hook, hasInitialized>>
    /\ UNCHANGED <<cookies, calls, issued, refreshPosts, href, logout>>
    /\ UNCHANGED <<serverVars, authVars, limiterVars, errorVars, memberVars,
                   statusVars, permVars>>

\* api.login resolved: both cookies are stored, then the store is set.
LoginResolved(i) ==
    /\ Waiting(i, "login")
    /\ LET response == [user |-> Subject,
                        session |-> [accessToken |-> AccessToken(i),
                                     refreshToken |-> RefreshToken(i)]] IN
       /\ cookies' = [token |-> response.session.accessToken,
                      refresh |-> response.session.refreshToken]
       /\ authStore' = LoginSet(authStore, response)
    /\ storage' = authStore'
    /\ isLoading' = FALSE
    /\ ops' = [ops EXCEPT ![i].pc = "resolved"]
    /\ effectDue' = TRUE
    /\ href' = Redirect(hasInitialized /\ hook # "useAuth (verify on change)",
                        isLoading', authStore', href)
    /\ UNCHANGED <<hydrated, hook, hasInitialized>>
    /\ UNCHANGED <<calls, issued, refreshPosts, logout>>
    /\ UNCHANGED <<serverVars, authVars, limiterVars, errorVars, memberVars,
                   statusVars, permVars>>

\* api.login rejected: set({ isLoading: false }) and rethrow.
LoginRejected(i) ==
    /\ Waiting(i, "login")
    /\ isLoading' = FALSE
    /\ ops' = [ops EXCEPT ![i].pc = "rejected"]
    /\ effectDue' = (effectDue \/ isLoading)
    /\ href' = Redirect(hasInitialized /\ hook # "useAuth (verify on change)",
                        isLoading', authStore, href)
    /\ UNCHANGED <<authStore, storage, hydrated, hook, hasInitialized>>
    /\ UNCHANGED <<cookies, calls, issued, refreshPosts, logout>>
    /\ UNCHANGED <<serverVars, authVars, limiterVars, errorVars, memberVars,
                   statusVars, permVars>>

\* logout(): api.logout() is fired, the store is cleared, the page changes.
StoreLogout ==
    /\ hydrated
    /\ Len(ops) < MaxOps
    /\ ops' = Append(ops, NewOp("logout", "app"))
    /\ authStore' = LoggedOut
    /\ storage' = authStore'
    /\ isLoading' = FALSE
    /\ href' = "/auth/login"
    /\ effectDue' = TRUE
    /\ UNCHANGED <<hydrated, hook, hasInitialized>>
    /\ UNCHANGED <<cookies, calls, issued, refreshPosts, logout>>
    /\ UNCHANGED <<serverVars, authVars, limiterVars, errorVars, memberVars,
                   statusVars, permVars>>

\* POST /auth/logout settled, either way: finally, both cookies are removed.
StoreLogoutSettled(i) ==
    /\ Waiting(i, "logout")
    /\ \E outcome \in {"resolved", "rejected"} :
          ops' = [ops EXCEPT ![i].pc = outcome]
    /\ cookies' = NoCookies
    /\ UNCHANGED <<authStore, isLoading, storage, hydrated, hook, hasInitialized,
                   effectDue>>
    /\ UNCHANGED <<calls, issued, refreshPosts, href, logout>>
    /\ UNCHANGED <<serverVars, authVars, limiterVars, errorVars, memberVars,
                   statusVars, permVars>>

\* The application calls refreshToken() of the store.
RefreshProfile ==
    /\ hydrated
    /\ Len(ops) < MaxOps
    /\ ops' = StartProfileRefresh("app")
    /\ ops' # ops
    /\ UNCHANGED <<authStore, isLoading, storage, hydrated, hook, hasInitialized,
                   effectDue>>
    /\ UNCHANGED <<cookies, calls, issued, refreshPosts, href, logout>>
    /\ UNCHANGED <<serverVars, authVars, limiterVars, errorVars, memberVars,
                   statusVars, permVars>>

\* The awaiting initializeAuth of hooks/useAuth.ts goes on after
\* refreshToken() returned: setHasInitialized(true).
Initialized(i) ==
    hasInitialized \/ (hook = "hooks/useAuth.ts" /\ ops[i].by = "hook")

\* api.getProfile resolved.
ProfileResolved(i) ==
    /\ Waiting(i, "getProfile")
    /\ authStore' = ProfileSet(authStore, Subject)
    /\ storage' = authStore'
    /\ ops' = [ops EXCEPT ![i].pc = "resolved"]
    /\ hasInitialized' = Initialized(i)
    /\ effectDue' = TRUE
    /\ href' = Redirect(hasInitialized' /\ hook # "useAuth (verify on change)",
                        isLoading, authStore', href)
    /\ UNCHANGED <<isLoading, hydrated, hook>>
    /\ UNCHANGED <<cookies, calls, issued, refreshPosts, logout>>
    /\ UNCHANGED <<serverVars, authVars, limiterVars, errorVars, memberVars,
                   statusVars, permVars>>

\* api.getProfile rejected: the error is logged and swallowed.
ProfileRejected(i) ==
    /\ Waiting(i, "getProfile")
    /\ ops' = [ops EXCEPT ![i].pc = "rejected"]
    /\ hasInitialized' = Initialized(i)
    /\ href' = Redirect(hasInitialized' /\ hook # "useAuth (verify on change)",
                        isLoading, authStore, href)
    /\ UNCHANGED <<authStore, isLoading, storage, hydrated, hook, effectDue>>
    /\ UNCHANGED <<cookies, calls, issued, refreshPosts, logout>>
    /\ UNCHANGED <<serverVars, authVars, limiterVars, errorVars, memberVars,
                   statusVars, permVars>>

\* updateUser(userData): merged into the user, if there is one.
UpdateUser ==
    /\ hydrated
    /\ ~Falsy(authStore.user)
    /\ authStore' = [authStore EXCEPT !.user = UpdatedUser]
    /\ storage' = authStore'
    /\ effectDue' = TRUE
    /\ UNCHANGED <<isLoading, hydrated, hook, hasInitialized, ops>>
    /\ UNCHANGED <<cookies, calls, issued, refreshPosts, href, logout>>
    /\ UNCHANGED <<serverVars, authVars, limiterVars, errorVars, memberVars,
                   statusVars, permVars>>

\* The process starts: the store holds its initial state, localStorage
\* what an earlier run of the application left there.
InitStore ==
    /\ ServerIdle
    /\ AuthIdle
    /\ LimiterIdle
    /\ ErrorIdle
    /\ MembersIdle
    /\ StatusIdle
    /\ PermissionsIdle
    /\ storage \in {LoggedOut, LoggedIn}
    /\ cookies = IF storage = LoggedIn
                 THEN [token |-> "t0", refresh |-> "r0"] ELSE NoCookies
    /\ calls = <<>>
    /\ issued = 0
    /\ refreshPosts = 0
    /\ href = "/"
    /\ logout = NoLogout
    /\ authStore = LoggedOut
    /\ isLoading = FALSE
    /\ hydrated = FALSE
    /\ hook \in Hooks
    /\ hasInitialized = FALSE
    /\ effectDue = TRUE
    /\ ops = <<>>

NextStore ==
    \/ Rehydrate
    \/ HookEffect
    \/ StoreLogin
    \/ \E i \in 1 .. MaxOps : LoginResolved(i)
    \/ \E i \in 1 .. MaxOps : LoginRejected(i)
    \/ StoreLogout
    \/ \E i \in 1 .. MaxOps : StoreLogoutSettled(i)
    \/ RefreshProfile
    \/ \E i \in 1 .. MaxOps : ProfileResolved(i)
    \/ \E i \in 1 .. MaxOps : ProfileRejected(i)
    \/ UpdateUser

SpecStore == InitStore /\ [][NextStore]_vars

-----------------------------------------------------------------------------
(* Properties of the server-side middleware chain                          *)

Range(f) == {f[i] : i \in DOMAIN f}
GuardKinds == {"restrictTo", "requirePermission", "restrictToGymLocation",
               "requireActiveMembership", "validateRequest"}
IsGuardStep(e) == e \in GuardKinds \cup {"handler"}
GuardTrace == SelectSeq(trace, IsGuardStep)
LastStep == IF trace = <<>> THEN "" ELSE trace[Len(trace)]
ProtectDone == pc \in {"guards", "done"}

\* The carriers as the caller filled them: an Authorization header of the
\* form "Bearer <token>", the jwt cookie, the x-access-token header.
HoldsBearer(h) ==
    /\ StartsWith(h, BearerPrefix)
    /\ Len(h) > Len(BearerPrefix)
    /\ \A i \in (Len(BearerPrefix) + 1) .. Len(h) : h[i] # " "
RECURSIVE Join(_)
Join(cs) == IF cs = <<>> THEN "" ELSE cs[1] \o Join(Tail(cs))
BearerToken(h) == Join(SubSeq(h, Len(BearerPrefix) + 1, Len(h)))
NoCarrier(r) ==
    ~HoldsBearer(r.authorization) /\ r.cookieJwt = Null /\ r.xAccessToken = Null

\* C1: a request to a protected route that carries no token in any of the
\* three carriers is answered 401 by protect, before the credential verifier
\* or the profile store is called, and no guard or handler runs for it.
C1_NoTokenRejected ==
    (ProtectDone /\ NoCarrier(req)) =>
        /\ pc = "done"
        /\ res = AuthenticationError("Access denied. No token provided.")
        /\ trace = <<>>
        /\ req.user = NoUser

C1_Witness ==
    /\ pc = "done"
    /\ NoCarrier(req)
    /\ req.authorization = BasicPrefix \o <<"a">>
    /\ route = "GET /members"
    /\ res.statusCode = 401

\* C2: extractToken yields the token of the highest-priority carrier that
\* holds one (Authorization Bearer header, then jwt cookie, then
\* x-access-token header), and no token only when no carrier holds one.
HighestPriorityToken(r) ==
    IF HoldsBearer(r.authorization) THEN BearerToken(r.authorization)
    ELSE IF r.cookieJwt # Null THEN r.cookieJwt
    ELSE r.xAccessToken

C2_PriorityOrder ==
    pc = "protect" => extractToken(req) = HighestPriorityToken(req)

\* C3 (as claimed): an identity is attached only when exactly one of the two
\* profile lookups finds a row.
C3_ExactlyOneLookup ==
    req.user # NoUser =>
        ((TeamLookup(db) # {}) # (MemberLookup(db) # {}))

Verified == ProtectDone /\ "verifyToken" \in Range(trace)
                        /\ res.message # "Invalid or expired token"

\* C3 (amended): the staff-type lookup is made first and wins: when it finds
\* a row the staff identity is attached and the member table is not queried,
\* whether or not it holds a row; otherwise the member row decides; only when
\* neither lookup finds a row does resolution fail with "profile not found".
C3_StaffLookupFirst ==
    Verified =>
        /\ (TeamLookup(db) # {}) =>
              /\ req.user # NoUser /\ req.user.type = "team_member"
              /\ "members" \notin Range(trace)
        /\ (TeamLookup(db) = {} /\ MemberLookup(db) # {}) =>
              \/ req.user # NoUser /\ req.user.type = "member"
              \/ res = AuthenticationError("Your account has been deactivated.")
        /\ (TeamLookup(db) = {} /\ MemberLookup(db) = {}) =>
              /\ req.user = NoUser
              /\ res = AuthenticationError("User profile not found")
              /\ pc = "done"

C3_Witness ==
    /\ Verified
    /\ TeamLookup(db) # {}
    /\ MemberLookup(db) # {}
    /\ req.user # NoUser
    /\ req.user.type = "team_member"

\* C4: protect never attaches an inactive identity.  A member identity is
\* active iff its status is active or pending, a staff identity iff its row
\* is marked active; a subject resolved to an inactive identity is answered
\* 401 before any guard or handler runs.
RowOf(user) ==
    IF user.type = "team_member"
    THEN {r \in db.team_members : r.is_active}
    ELSE {r \in db.members : r.membership_status \in {"active", "pending"}}

C4_NeverInactive ==
    /\ req.user # NoUser =>
          /\ req.user.isActive
          /\ RowOf(req.user) # {}
    /\ (Verified /\ TeamLookup(db) = {}
          /\ \E m \in db.members : m.membership_status \notin {"active", "pending"}) =>
          /\ req.user = NoUser
          /\ res.statusCode = 401
          /\ GuardTrace = <<>>
          /\ pc = "done"

C4_Witness ==
    /\ Verified
    /\ TeamLookup(db) = {}
    /\ \E m \in db.members : m.membership_status = "suspended"
    /\ res = AuthenticationError("Your account has been deactivated.")

\* C5: after protect, the handler runs iff the identity passes every guard of
\* the chain in order; otherwise the response is the error of the first guard
\* in chain order that denies, and neither a later guard nor the handler runs.
DecisionAt(i) ==
    LET g == Chain[i] IN
    CASE g.kind = "restrictTo" -> RestrictToDecision(req.user, g.args)
      [] g.kind = "requirePermission" -> RequirePermissionDecision(req.user, g.args)
      [] g.kind = "restrictToGymLocation" -> RestrictToGymLocationDecision(req.user, req)
      [] g.kind = "requireActiveMembership" ->
            RequireActiveMembershipDecision(req.user, clock)
      [] g.kind = "validateRequest" -> ValidateRequestDecision(req)
Denying == {i \in 1 .. Len(Chain) : DecisionAt(i) # NoResponse}
FirstDenying == CHOOSE i \in Denying : \A j \in Denying : i <= j
KindsUpTo(n) == [i \in 1 .. n |-> Chain[i].kind]

C5_FirstDenialSurfaces ==
    (pc = "done" /\ req.user # NoUser) =>
        IF Denying = {}
        THEN /\ res = Success
             /\ GuardTrace = Append(KindsUpTo(Len(Chain)), "handler")
        ELSE /\ res = DecisionAt(FirstDenying)
             /\ GuardTrace = KindsUpTo(FirstDenying)

C5_Witness ==
    /\ pc = "done"
    /\ req.user # NoUser
    /\ route = "scoped"
    /\ Denying = {2, 3}
    /\ res = AuthorizationError("Access denied to this gym location")

\* C6: restrictToGymLocation allows every request of an admin identity; for
\* a staff or member identity with home location L it allows the request iff
\* the requested location id is absent or equals L, and denies with 403
\* otherwise.
Ran(kind) == req.user # NoUser /\ LastStep = kind
Allowed == pc = "guards"
Denied403 == pc = "done" /\ res.statusCode = 403
Requested ==
    IF req.params # Null THEN req.params
    ELSE IF req.query # Null THEN req.query ELSE req.body

C6_LocationScope ==
    Ran("restrictToGymLocation") =>
        /\ Allowed \/ Denied403
        /\ Allowed <=> \/ req.user.role = "admin"
                       \/ Requested = Null
                       \/ Requested = req.user.gymLocationId

C6_Witness ==
    /\ Ran("restrictToGymLocation")
    /\ req.user.role = "member"
    /\ Requested \in Locations \ {req.user.gymLocationId}
    /\ Denied403

\* C7: requirePermission(any) allows every admin identity whatever its
\* permission map, allows a staff identity iff at least one capability of
\* any is set to true in its permission map, and never allows a member.
Granted(user, any) ==
    \E p \in any \cap DOMAIN user.permissions : user.permissions[p] = "true"

C7_Permission ==
    Ran("requirePermission") =>
        /\ Allowed \/ Denied403
        /\ Allowed <=> \/ req.user.role = "admin"
                       \/ /\ req.user.role = "staff"
                          /\ Granted(req.user, Chain[Len(GuardTrace)].args)

C7_Witness ==
    /\ Ran("requirePermission")
    /\ req.user.role = "staff"
    /\ "manage_members" \in DOMAIN req.user.permissions
    /\ req.user.permissions["manage_members"] = "1"
    /\ "manage_members" \in Chain[Len(GuardTrace)].args
    /\ Denied403

\* C8: requireActiveMembership passes every staff and admin identity, and
\* allows a member iff membershipStatus is active and the end date is absent
\* or not before now; a pending member, or an active one whose end date has
\* passed, is denied with 403 even after every role check passed.
C8_ActiveMembership ==
    Ran("requireActiveMembership") =>
        /\ Allowed \/ Denied403
        /\ Allowed <=> \/ req.user.role \in {"admin", "staff"}
                       \/ /\ req.user.membershipStatus = "active"
                          /\ \/ req.user.membershipEndDate = NoDate
                             \/ req.user.membershipEndDate[1] * TicksPerDay >= clock

C8_Witness ==
    /\ Ran("requireActiveMembership")
    /\ route = "scoped"
    /\ req.user.role = "member"
    /\ req.user.membershipStatus = "active"
    /\ req.user.membershipEndDate # NoDate
    /\ req.user.membershipEndDate[1] * TicksPerDay < clock
    /\ Denied403

-----------------------------------------------------------------------------
(* Properties of the client request pipeline                               *)

\* C9: for any single outbound call the pipeline makes at most one refresh
\* attempt and re-sends the call at most once; a re-sent call that is itself
\* answered 401 is rejected without a second refresh.
C9_OneRefreshPerCall ==
    \A c \in CallIds :
        /\ calls[c].refreshes <= 1
        /\ calls[c].sends <= 2
        /\ calls[c].sends <= calls[c].refreshes + 1
        /\ (calls[c].sends = 2 /\ calls[c].status = 401) =>
              /\ calls[c].pc = "rejected"
              /\ calls[c].error = "response"

C9_Witness ==
    \E c \in CallIds :
        /\ calls[c].sends = 2
        /\ calls[c].status = 401
        /\ calls[c].refreshes = 1
        /\ calls[c].pc = "rejected"

\* C10: refresh is single-flight: calls that receive 401 while no refresh
\* has settled share one upstream POST /auth/refresh-token, so at no time
\* are two refresh requests in flight.
C10_SingleFlight ==
    Cardinality({c \in CallIds : calls[c].pc = "refreshing"}) <= 1

\* C11: when the refresh triggered by a 401 fails, both token cookies are
\* removed, the auth store is cleared (user = null, token = null,
\* isAuthenticated = false) and the call is not re-sent.
C11_RefreshFailureLogsOut ==
    [][\A c \in CallIds :
          (calls[c].pc = "refreshing" /\ calls'[c].pc = "rejected") =>
              /\ cookies' = NoCookies
              /\ authStore' = LoggedOut
              /\ calls'[c].sends = calls[c].sends]_vars

C13_LogoutAlwaysClears ==
    [][/\ (logout.pc = "idle" /\ logout'.pc # "idle") =>
             /\ authStore' = LoggedOut
             /\ logout'.pc = "waiting"
       /\ (logout.pc = "waiting" /\ calls[logout.call].pc \in {"resolved", "rejected"}
             /\ logout' # logout) =>
             /\ logout'.pc = "done"
             /\ cookies' = NoCookies
             /\ authStore' = LoggedOut]_vars

C13_Witness ==
    /\ logout.pc = "done"
    /\ calls[logout.call].pc = "rejected"
    /\ calls[logout.call].status = 401
    /\ cookies = NoCookies
    /\ authStore = LoggedOut

\* C14: a logout cancels the effect of a refresh that is in flight: once the
\* logout and every refresh have settled, no access token is stored.
C14_LogoutCancelsRefresh ==
    (logout.pc = "done" /\ \A c \in CallIds : calls[c].pc # "refreshing") =>
        cookies.token = Null

-----------------------------------------------------------------------------
(* Properties of the auth API                                              *)

AuthDone(kind) == apc = "done" /\ areq.kind = kind
ProviderAccepted == provider.called /\ ~provider.thrown /\ Falsy(provider.error)
                    /\ provider.session # NoSession

\* C15 as stated: POST /auth/refresh-token answers with the new session or
\* with 401, never with another error.
C15_SessionOr401 ==
    AuthDone("refresh-token") => ares.statusCode \in {200, 401}

\* C15 amended: a request without a refresh token is rejected with 400
\* before the provider is asked; for a non-empty refresh token the answer is
\* the provider's new session when the provider accepts the token, and 401
\* 'Token refresh failed' without a session for every other provider outcome.
C15_RefreshOutcome ==
    AuthDone("refresh-token") =>
        IF Falsy(areq.refreshToken)
        THEN ares = AuthRespond(ValidationError("Validation failed"))
             /\ ~provider.called
        ELSE IF ProviderAccepted
        THEN ares.statusCode = 200 /\ ares.session = provider.session
             /\ ares.session # NoSession
        ELSE ares = AuthRespond(AuthenticationError("Token refresh failed"))

C15_Witness ==
    /\ AuthDone("refresh-token")
    /\ provider.called /\ ~provider.thrown /\ Falsy(provider.error)
    /\ provider.session = NoSession
    /\ ares.statusCode = 401

\* The subject's account is inactive: no active staff row, and a member row
\* whose status is neither active nor pending.
InactiveAccount ==
    /\ TeamLookup(db) = {}
    /\ MemberLookup(db) # {}
    /\ \A r \in MemberLookup(db) : r.membership_status \notin {"active", "pending"}

\* C16 as stated: login answers 401 when the provider rejects the
\* credentials and 403 when they are accepted but the account is inactive,
\* and returns no token in either case.
C16_Rejected401Inactive403 ==
    (AuthDone("login") /\ provider.called) =>
        /\ ~Falsy(provider.error) =>
              ares.statusCode = 401 /\ ares.session = NoSession
        /\ (ProviderAccepted /\ InactiveAccount) =>
              ares.statusCode = 403 /\ ares.session = NoSession

\* C16 amended: login answers 401 when the provider rejects the credentials
\* and also 401 (account deactivated) when they are accepted but the
\* resolved account is inactive; no token is returned in either case, and
\* login never answers 403.
C16_Rejected401Inactive401 ==
    AuthDone("login") =>
        /\ ares.statusCode # 403
        /\ (provider.called /\ ~Falsy(provider.error)) =>
              ares.statusCode = 401 /\ ares.session = NoSession
        /\ (ProviderAccepted /\ InactiveAccount) =>
              /\ ares.statusCode = 401
              /\ ares.message = "Your account has been deactivated. Please contact support."
              /\ ares.session = NoSession

C16_Witness ==
    /\ AuthDone("login")
    /\ ProviderAccepted
    /\ InactiveAccount
    /\ ares.statusCode = 401

UnknownEmailFailure(e) ==
    e.email # KnownEmail /\ e.statusCode # 200
WrongPasswordFailure(e) ==
    e.email = KnownEmail /\ e.password # Password /\ e.statusCode # 200

-----------------------------------------------------------------------------
(* Properties of optional authentication                                   *)

TokenVerified ==
    "verifyToken" \in Range(trace) /\ "Invalid or expired token" \notin Range(trace)
\* The subject's profile as the two tables hold it: the active staff row, or
\* else the single member row, which is active when its status is active or
\* pending.
ActiveProfile ==
    \/ TeamLookup(db) # {}
    \/ /\ MemberLookup(db) # {}
       /\ \A r \in MemberLookup(db) : r.membership_status \in {"active", "pending"}

\* C18: optionalAuth never fails the request: it always passes control on
\* with no error response, and the request carries an identity exactly when
\* a token was extracted, the verifier accepted it and the profile lookup
\* found an active profile; otherwise no identity is attached.
C18_OptionalNeverFails ==
    pc = "next" =>
        /\ res = NoResponse
        /\ (req.user # NoUser) <=>
              (~Falsy(extractToken(req)) /\ TokenVerified /\ ActiveProfile)
        /\ Falsy(req.token) <=> (req.user = NoUser)

C18_Witness ==
    /\ pc = "next"
    /\ ~Falsy(extractToken(req))
    /\ TokenVerified
    /\ ~ActiveProfile
    /\ MemberLookup(db) # {}
    /\ req.user = NoUser
    /\ res = NoResponse

-----------------------------------------------------------------------------
(* Properties of rate limiting                                             *)

\* C19: from one origin at most 10 login requests within one window reach
\* the login handler; further ones are rejected with 429.
C19_StrictLoginBudget ==
    \A i \in IPs : reached[i] <= 10

\* C20: the budget applied to a request is the one of the caller's role
\* (admin > staff > member > anonymous), anonymous when there is no identity.
C20_RoleBudget ==
    /\ \A r1, r2 \in CallerRoles :
          (<<r1, r2>> \in {<<"admin", "staff">>, <<"staff", "member">>,
                           <<"member", "anonymous">>}) => roleLimits[r1] > roleLimits[r2]
    /\ (lpc = "done" /\ lreq.limit # 0) => lreq.limit = roleLimits[lreq.role]

-----------------------------------------------------------------------------
(* Properties of error handling                                            *)

Operational(e) == e.isOperational

\* C21: an error that is not operational reaches the caller as a generic
\* failure with neither its message nor its stack; AuthenticationError,
\* AuthorizationError and TooManyRequestsError reach it with status 401, 403
\* and 429.
C21_NoLeak ==
    epc = "done" =>
        /\ ~Operational(thrown) =>
              /\ eres.message # thrown.message
              /\ eres.stack = Null
        /\ thrown.kind = "AuthenticationError" => eres.statusCode = 401
        /\ thrown.kind = "AuthorizationError" => eres.statusCode = 403
        /\ thrown.kind = "TooManyRequestsError" => eres.statusCode = 429

-----------------------------------------------------------------------------
(* Properties of member management                                         *)

\* C22: a staff identity listing members gets a successful list holding
\* only members of its own location, whatever gymLocationId the query names.
C22_StaffListScoped ==
    (mpc = "done" /\ mreq.op = "list" /\ mreq.user.role = "staff") =>
        /\ mres.statusCode = 200
        /\ \A m \in mres.items : HomeLocation[m] = mreq.user.gymLocationId

ForeignMember(m) ==
    mreq.user.role = "staff" /\ HomeLocation[m] # mreq.user.gymLocationId

\* C26: a staff identity's update, suspension or activation of a member of
\* another location is refused and leaves the member's record unchanged.
C26_StaffChangesOwnLocationOnly ==
    [][\A m \in MemberIds :
          (mpc = "handler" /\ mreq.op \in {"update", "suspend", "activate"}
            /\ mreq.id = m /\ ForeignMember(m)) =>
              /\ members'[m] = members[m]
              /\ mres'.statusCode # 200]_vars

-----------------------------------------------------------------------------
(* Properties of the client's token storage                                *)

\* C27: the refresh token the client stores is the one most recently issued
\* to it (by the login, numbered 0, or by the latest successful refresh).
C27_StoresLatestRefreshToken ==
    ~Falsy(cookies.refresh) => cookies.refresh = RefreshToken(issued)

Unauthorized401(c) ==
    /\ calls[c].pc = "sent"
    /\ calls'[c].pc # "sent"
    /\ calls'[c].status = 401
    /\ Falsy(cookies.refresh)

\* C28: a call answered 401 while no refresh token is stored is rejected
\* with that response; no refresh request is sent, the call is not sent
\* again, and the cookies and the session store stay as they were.
C28_NoRefreshTokenNoRefresh ==
    [][\A c \in CallIds :
          Unauthorized401(c) =>
            /\ calls'[c].pc = "rejected"
            /\ calls'[c].error = "response"
            /\ calls'[c].sends = calls[c].sends
            /\ calls'[c].refreshes = calls[c].refreshes
            /\ refreshPosts' = refreshPosts
            /\ cookies' = cookies
            /\ authStore' = authStore]_vars

C28_Witness ==
    \E c \in CallIds :
        /\ calls[c].pc = "rejected"
        /\ calls[c].status = 401
        /\ calls[c].error = "response"
        /\ calls[c].refreshes = 0
        /\ Falsy(cookies.refresh)
        /\ ~Falsy(cookies.token)

-----------------------------------------------------------------------------
(* Properties of identity freshness and of permission checks               *)

\* C24: the identity is resolved anew for every request: a request that
\* arrives after a status update and carries a valid token runs with the
\* profile the tables hold now, and is rejected by protect with 401 when
\* that profile is inactive or gone.
C24_NoIdentityCache ==
    (history.after /\ Verified) =>
        IF ActiveProfile
        THEN req.user = getUserProfile(db, Subject)
        ELSE pc = "done" /\ res.statusCode = 401 /\ req.user = NoUser

\* The earlier request was served with an active identity, the status
\* update deactivated the subject, and the next request was rejected.
C24_Witness ==
    /\ history.after
    /\ history.before # NoUser
    /\ ~history.isActive
    /\ Verified
    /\ pc = "done"
    /\ res = AuthenticationError("Your account has been deactivated.")

RequirePermissionDenied ==
    /\ pc = "done"
    /\ idx <= Len(Chain)
    /\ Chain[idx].kind = "requirePermission"
    /\ res.statusCode = 403

StaffLacking(permissions) ==
    {u \in {StaffIdentity(t, Subject) : t \in TeamRows} :
        u.role = "staff" /\ ~HasPermission(u, permissions)}

\* C25: the denial a member gets from requirePermission (its role can hold
\* no capability) differs from the denial of a staff identity that lacks
\* every required capability.
C25_DenialReasonTellsCause ==
    (RequirePermissionDenied /\ req.user.role = "member") =>
        \A u \in StaffLacking(Chain[idx].args) :
            RequirePermissionDecision(u, Chain[idx].args) # res

\* C30: the client's hasPermission answers true exactly when the server's
\* requirePermission lets the same identity through for that capability.
C30_ClientAgreesWithServer ==
    pcheck.asked = {"client", "server"} =>
        (pcheck.client <=> pcheck.server = NoResponse)

C30_Witness ==
    /\ pcheck.asked = {"client", "server"}
    /\ pcheck.user # NoUser
    /\ pcheck.user.role = "staff"
    /\ pcheck.permission \in DOMAIN pcheck.user.permissions
    /\ pcheck.user.permissions[pcheck.permission] # "true"
    /\ ~pcheck.client
    /\ pcheck.server.statusCode = 403

-----------------------------------------------------------------------------
(* Properties of the session store                                         *)

\* C23: the persisted session is read into the store before anything is
\* sent, reading it again changes nothing, and the first request on the
\* wire is one the application asked for: start-up by itself sends none.
C23_StartupSendsNothing ==
    /\ ops # <<>> => (hydrated /\ ops[1].by = "app")
    /\ hydrated => authStore = storage

Failed(i) ==
    /\ ops[i].op \in {"login", "getProfile"}
    /\ ops[i].pc = "waiting"
    /\ ops'[i].pc = "rejected"

\* C29: in the store isAuthenticated holds exactly when user is set, and a
\* failed login or profile refresh leaves user, token and isAuthenticated
\* as they were.
C29_StoreConsistent ==
    [][/\ authStore.isAuthenticated <=> ~Falsy(authStore.user)
       /\ authStore'.isAuthenticated <=> ~Falsy(authStore'.user)
       /\ \A i \in DOMAIN ops : Failed(i) => authStore' = authStore]_vars

\* A profile refresh resolved after a logout, and a login failed.
C29_Witness ==
    /\ authStore.isAuthenticated
    /\ Falsy(authStore.token)
    /\ \E i \in DOMAIN ops : ops[i].op = "login" /\ ops[i].pc = "rejected"

====
